---- MODULE Spec2Model ----
(***************************************************************************)
(* The Transformer of resources/transformer_and_attention_mechanism        *)
(* (attention_mechanism_and_transformer.ipynb) as a state machine.         *)
(*                                                                         *)
(* The specifications of this module:                                      *)
(*   SpecKernel  scaled_dot_product_attention as a pure function on small  *)
(*               concrete tensors (exact integer entries);                 *)
(*   SpecUnit    MultiHeadAttention.forward, position_encoding and         *)
(*               Residual.forward, each called on its own;                 *)
(*   SpecConcurrent  two Transformer.forward calls on one model in         *)
(*               evaluation mode, interleaved step by step;                *)
(*   SpecGuard   PromptGuard.get_scores_for_texts of                       *)
(*               resources/controlling_jailbreak, one action per batch     *)
(*               (SpecGuardFair: the same, the loop keeps running);        *)
(*   Spec        Transformer construction and forward calls, one action    *)
(*               per sublayer step, on tensor objects that carry a shape   *)
(*               and a hash-consed value term.                             *)
(***************************************************************************)
EXTENDS Integers, Sequences, FiniteSets, TLC

VARIABLES
    kpc,        \* call of a function on its own: "ready" | "done"
    kin,        \* its inputs (the kernel's: [query, key, value], concrete tensors)
    kres,       \* its result (the kernel's: [ok, shape, weights, out])
    pc,         \* position of the caller / of the forward call in progress
    model,      \* the constructed Transformer (its configuration and layers)
    training,   \* nn.Module.training of the model
    heap,       \* tensor objects: id -> [shape, val]
    nodes,      \* value terms, hash-consed: val id -> [op, tag, args]
    inputs,     \* the caller's src and tgt: [made, src, tgt] (object ids)
    entry,      \* values of src and tgt when the call in progress was entered
    x,          \* the local `src` / `tgt` of the forward in progress (object id)
    mem,        \* the local `memory` of the decoder (object id, 0 = not yet)
    layer,      \* index of the layer in progress
    log,        \* sublayer invocations of the call in progress
    outs,       \* results of the calls made, oldest first: [ok, shape, val, err, entry]
    rng,        \* dropout masks sampled so far
    calls,      \* SpecConcurrent: the forward calls in flight, one record each
    pg          \* SpecGuard: the call of PromptGuard.get_scores_for_texts

\* what a step of a forward call of Spec leaves alone
kvars == <<kpc, kin, kres, calls, pg>>
\* what a call of a function on its own leaves alone
fvars == <<pc, model, training, heap, nodes, inputs, entry, x, mem, layer, log, outs, rng,
           calls, pg>>
\* what a step of PromptGuard leaves alone
tvars == <<kpc, kin, kres, pc, model, training, heap, nodes, inputs, entry, x, mem,
           layer, log, outs, rng, calls>>
vars == <<kpc, kin, kres, pc, model, training, heap, nodes, inputs, entry, x, mem,
          layer, log, outs, rng, calls, pg>>

----------------------------------------------------------------------------
(* Bounds *)

MaxBatch == 2
MaxSeq == 2
MaxKernelDim == 2
MaxLayers == 2
MaxCalls == 2
MaxUnitHeads == 3
MaxEncodingDim == 4
MaxTexts == 2
MaxBatchSize == 2
ChunkSize == 512
TextLengths == {0, 1, 512, 513, 1025}
ExpBase == 2
DefaultDimModel == 512
DefaultNumHeads == 6
DefaultEncoderNumHeads == 8
Batches == {1, 2}
SeqLens == {1, 2}
DimModels == {2, 3}
InputWidths == {2, 3}
Heads == {0, 1, 2, 3}
FeedForwardDims == {4}
ConcurrentLayers == {0, 1}
ConcurrentHeads == {1, 2}

----------------------------------------------------------------------------
(* Shapes.  A shape is [ok, dims]; an operation whose operands do not fit  *)
(* raises, which is the shape ShapeError, and every operation passes an    *)
(* operand's error on (the exception propagates).                          *)

RECURSIVE SumTo(_, _)
SumTo(f, n) == IF n = 0 THEN 0 ELSE f[n] + SumTo(f, n - 1)

Sh(b, l, d) == [ok |-> TRUE, dims |-> <<b, l, d>>]
ShapeError == [ok |-> FALSE, dims |-> <<>>]

\* Tensor.transpose(1, 2)
transpose(s) ==
    IF s.ok THEN Sh(s.dims[1], s.dims[3], s.dims[2]) ELSE ShapeError

\* Tensor.bmm: (b, n, m) x (b, m, p) -> (b, n, p), no broadcasting
bmm(a, b) ==
    IF a.ok /\ b.ok /\ a.dims[1] = b.dims[1] /\ a.dims[3] = b.dims[2]
    THEN Sh(a.dims[1], a.dims[2], b.dims[3])
    ELSE ShapeError

\* f.softmax(t, dim=-1), torch.softmax(t, dim=-1): the shape is kept
softmax_shape(s) == s

\* nn.Linear(in_features, out_features) applied to a tensor
Linear(in_features, out_features, s) ==
    IF s.ok /\ s.dims[3] = in_features
    THEN Sh(s.dims[1], s.dims[2], out_features)
    ELSE ShapeError

\* one axis of a broadcast
BroadcastDim(m, n) == IF m = n THEN m ELSE IF m = 1 THEN n ELSE IF n = 1 THEN m ELSE -1

\* a + b with broadcasting
add(a, b) ==
    IF a.ok /\ b.ok /\ \A i \in 1..3 : BroadcastDim(a.dims[i], b.dims[i]) >= 0
    THEN Sh(BroadcastDim(a.dims[1], b.dims[1]),
            BroadcastDim(a.dims[2], b.dims[2]),
            BroadcastDim(a.dims[3], b.dims[3]))
    ELSE ShapeError

\* a += b: the broadcast result must have a's own shape
iadd(a, b) == IF add(a, b) = a THEN a ELSE ShapeError

\* nn.LayerNorm(dimension) applied to a tensor
LayerNorm(dimension, s) ==
    IF s.ok /\ s.dims[3] = dimension THEN s ELSE ShapeError

\* torch.cat(list, dim=-1): the widths add up; an empty list raises, and so
\* do tensors that differ on another axis
cat(list) ==
    IF /\ Len(list) >= 1
       /\ \A h \in 1..Len(list) :
            /\ list[h].ok
            /\ list[h].dims[1] = list[1].dims[1]
            /\ list[h].dims[2] = list[1].dims[2]
    THEN Sh(list[1].dims[1], list[1].dims[2],
            SumTo([h \in 1..Len(list) |-> list[h].dims[3]], Len(list)))
    ELSE ShapeError

\* mutant: the key is not transposed
scaled_dot_product_attention_untransposed(query, key, value) ==
    bmm(softmax_shape(bmm(query, key)), value)

\* scaled_dot_product_attention, shapes
scaled_dot_product_attention(query, key, value) ==
    LET temp == bmm(query, transpose(key))
        softmax == softmax_shape(temp)
    IN  bmm(softmax, value)

\* the attention-weight matrix of scaled_dot_product_attention, shapes
attention_weights_shape(query, key) == softmax_shape(bmm(query, transpose(key)))

----------------------------------------------------------------------------
(* scaled_dot_product_attention on concrete tensors.  A tensor is a        *)
(* sequence (batch) of sequences (positions) of sequences (channels) of    *)
(* integers.  A scaled score temp / scale is kept exactly, as              *)
(* [num, sq] = num / sqrt(sq); a softmax entry is kept as [e, z] =         *)
(* exp(e) / (exp(z[1]) + ... + exp(z[n])).                                 *)

ShapeOf(t) == Sh(Len(t), Len(t[1]), Len(t[1][1]))

\* test tensors with entries in {0, 1}
Gen(seed, b, l, d) ==
    [bb \in 1..b |-> [i \in 1..l |-> [c \in 1..d |-> (seed + bb + 2 * i + 3 * c + i * c) % 2]]]

Dot(u, v) == SumTo([c \in 1..Len(u) |-> u[c] * v[c]], Len(u))

\* query.bmm(key.transpose(1, 2))
bmm_transposed(query, key) ==
    [b \in 1..Len(query) |-> [i \in 1..Len(query[b]) |->
        [j \in 1..Len(key[b]) |-> Dot(query[b][i], key[b][j])]]]

\* scale = query.size(-1) ** 0.5, kept as its square
scale_squared(query) == Len(query[1][1])

\* temp / scale
scaled(temp, sq) ==
    [b \in 1..Len(temp) |-> [i \in 1..Len(temp[b]) |->
        [j \in 1..Len(temp[b][i]) |-> [num |-> temp[b][i][j], sq |-> sq]]]]

\* the dim argument of f.softmax(temp / scale, dim=-1)
SoftmaxDim == -1

\* the axis (1..3) a dim argument names on a rank-3 tensor
Axis(dim) == IF dim < 0 THEN 3 + dim + 1 ELSE dim + 1

\* the entries of t on the line through (b, i, j) along axis
Along(t, b, i, j, axis) ==
    IF axis = 3 THEN [jj \in 1..Len(t[b][i]) |-> t[b][i][jj]]
    ELSE IF axis = 2 THEN [ii \in 1..Len(t[b]) |-> t[b][ii][j]]
    ELSE [bb \in 1..Len(t) |-> t[bb][i][j]]

\* f.softmax(t, dim)
softmax(t, dim) ==
    [b \in 1..Len(t) |-> [i \in 1..Len(t[b]) |-> [j \in 1..Len(t[b][i]) |->
        [e |-> t[b][i][j], z |-> Along(t, b, i, j, Axis(dim))]]]]

\* mutant: the softmax is taken over dim=1, the query axis
attention_weights_over_queries(query, key) ==
    softmax(scaled(bmm_transposed(query, key), scale_squared(query)), 1)

\* the attention weights: f.softmax(temp / scale, dim=-1)
attention_weights(query, key) ==
    softmax(scaled(bmm_transposed(query, key), scale_squared(query)), SoftmaxDim)

\* softmax.bmm(value): entry (b, i, c) is the weighted sum over the keys j
weighted_values(weights, value) ==
    [b \in 1..Len(weights) |-> [i \in 1..Len(weights[b]) |->
        [c \in 1..Len(value[b][1]) |->
            [j \in 1..Len(weights[b][i]) |->
                [w |-> weights[b][i][j], v |-> value[b][j][c]]]]]]

\* scaled_dot_product_attention(query, key, value) on concrete tensors
KernelResult(query, key, value) ==
    LET shape == scaled_dot_product_attention(ShapeOf(query), ShapeOf(key), ShapeOf(value))
        weights == attention_weights(query, key)
    IN  IF shape.ok
        THEN [ok |-> TRUE, shape |-> shape, weights |-> weights,
              out |-> weighted_values(weights, value)]
        ELSE [ok |-> FALSE, shape |-> shape, weights |-> <<>>, out |-> <<>>]

(* Exact arithmetic on softmax entries.  exp(num / sqrt(sq)) is t^num for  *)
(* t = exp(1 / sqrt(sq)); t is transcendental, so an equation between sums *)
(* of such entries holds for t only if it holds for every base, and it is  *)
(* evaluated at ExpBase.                                                    *)

Exp(s) == ExpBase ^ s.num

ExpSum(z) == SumTo([k \in 1..Len(z) |-> Exp(z[k])], Len(z))

\* a softmax entry as a fraction
Frac(w) == [num |-> Exp(w.e), den |-> ExpSum(w.z)]

RECURSIVE SumFrac(_, _)
SumFrac(f, n) ==
    IF n = 0 THEN [num |-> 0, den |-> 1]
    ELSE LET r == SumFrac(f, n - 1)
         IN  [num |-> r.num * f[n].den + f[n].num * r.den, den |-> r.den * f[n].den]

\* the weights of one query position, summed over the key positions
RowSum(weights, b, i) ==
    SumFrac([j \in 1..Len(weights[b][i]) |-> Frac(weights[b][i][j])], Len(weights[b][i]))

----------------------------------------------------------------------------
(* SpecKernel: one call of scaled_dot_product_attention on inputs drawn    *)
(* from the bounded shapes (fitting and not fitting).                      *)

KernelInputs ==
    { [query |-> Gen(s, b, lq, dk), key |-> Gen(s + 1, bk, lk, dkk), value |-> Gen(s, b, lv, dv)] :
        s \in 0..1, b \in 1..MaxBatch, bk \in 1..MaxBatch, lq \in 1..MaxSeq,
        lk \in 1..MaxSeq, lv \in 1..MaxSeq, dk \in 1..MaxKernelDim,
        dkk \in 1..MaxKernelDim, dv \in 1..MaxKernelDim }

NoKernelResult == [ok |-> FALSE, shape |-> ShapeError, weights |-> <<>>, out |-> <<>>]

ForwardIdle ==
    /\ pc = "new"
    /\ model = [built |-> FALSE]
    /\ training = TRUE
    /\ heap = <<>>
    /\ nodes = <<>>
    /\ inputs = [made |-> FALSE, src |-> 0, tgt |-> 0]
    /\ entry = [src |-> 0, tgt |-> 0]
    /\ x = 0
    /\ mem = 0
    /\ layer = 0
    /\ log = <<>>
    /\ outs = <<>>
    /\ rng = 0
    /\ calls = <<>>
    /\ pg = [pc |-> "off"]

KernelInit ==
    /\ kpc = "ready"
    /\ kin \in KernelInputs
    /\ kres = NoKernelResult
    /\ ForwardIdle

KernelCall ==
    /\ kpc = "ready"
    /\ kres' = KernelResult(kin.query, kin.key, kin.value)
    /\ kpc' = "done"
    /\ UNCHANGED <<kin, fvars>>

KernelNext == KernelCall

SpecKernel == KernelInit /\ [][KernelNext]_vars

\* the inputs fit: query (B, Lq, dk), key (B, Lk, dk), value (B, Lk, dv)
KernelInputsFit ==
    /\ Len(kin.key) = Len(kin.query)
    /\ Len(kin.value) = Len(kin.query)
    /\ Len(kin.key[1][1]) = Len(kin.query[1][1])
    /\ Len(kin.value[1]) = Len(kin.key[1])

----------------------------------------------------------------------------
(* Modules: construction.  A module is the record of what its __init__     *)
(* stores.                                                                 *)

\* AttentionHead.__init__
AttentionHead(dim_in, dim_k, dim_v) ==
    [q |-> [in_features |-> dim_in, out_features |-> dim_k],
     k |-> [in_features |-> dim_in, out_features |-> dim_k],
     v |-> [in_features |-> dim_in, out_features |-> dim_v]]

\* mutant: the fusion projection is sized for one head
MultiHeadAttention_fusion_of_one_head(num_heads, dim_in, dim_k, dim_v) ==
    [kind |-> "MultiHeadAttention",
     heads |-> [h \in 1..num_heads |-> AttentionHead(dim_in, dim_k, dim_v)],
     linear |-> [in_features |-> dim_v, out_features |-> dim_in]]

\* MultiHeadAttention.__init__
MultiHeadAttention(num_heads, dim_in, dim_k, dim_v) ==
    [kind |-> "MultiHeadAttention",
     heads |-> [h \in 1..num_heads |-> AttentionHead(dim_in, dim_k, dim_v)],
     linear |-> [in_features |-> num_heads * dim_v, out_features |-> dim_in]]

\* mutant: the second Linear keeps the hidden width
feed_forward_to_hidden_width(dim_input, dim_feedforward) ==
    [kind |-> "feed_forward",
     linear_0 |-> [in_features |-> dim_input, out_features |-> dim_feedforward],
     linear_2 |-> [in_features |-> dim_feedforward, out_features |-> dim_feedforward]]

\* feed_forward(dim_input, dim_feedforward)
feed_forward(dim_input, dim_feedforward) ==
    [kind |-> "feed_forward",
     linear_0 |-> [in_features |-> dim_input, out_features |-> dim_feedforward],
     linear_2 |-> [in_features |-> dim_feedforward, out_features |-> dim_input]]

\* Residual.__init__
Residual(sublayer, dimension, dropout) ==
    [sublayer |-> sublayer, norm |-> dimension, dropout |-> dropout]

\* mutant: the per-head dimension is rounded up
HeadDim_rounded_up(dim_model, num_heads) == (dim_model + num_heads - 1) \div num_heads

\* dim_k = dim_v = dim_model // num_heads
HeadDim(dim_model, num_heads) == dim_model \div num_heads

\* TransformerEncoderLayer.__init__
TransformerEncoderLayer(dim_model, num_heads, dim_feedforward, dropout) ==
    [attention |->
        Residual(MultiHeadAttention(num_heads, dim_model, HeadDim(dim_model, num_heads),
                                    HeadDim(dim_model, num_heads)), dim_model, dropout),
     feed_forward |-> Residual(feed_forward(dim_model, dim_feedforward), dim_model, dropout)]

\* TransformerDecoderLayer.__init__
TransformerDecoderLayer(dim_model, num_heads, dim_feedforward, dropout) ==
    [attention_1 |->
        Residual(MultiHeadAttention(num_heads, dim_model, HeadDim(dim_model, num_heads),
                                    HeadDim(dim_model, num_heads)), dim_model, dropout),
     attention_2 |->
        Residual(MultiHeadAttention(num_heads, dim_model, HeadDim(dim_model, num_heads),
                                    HeadDim(dim_model, num_heads)), dim_model, dropout),
     feed_forward |-> Residual(feed_forward(dim_model, dim_feedforward), dim_model, dropout)]

\* mutant: the layers are built with the default num_heads of
\* TransformerEncoder, not with the argument
TransformerEncoder_default_heads(num_layers, dim_model, num_heads, dim_feedforward, dropout) ==
    [layers |-> [i \in 1..num_layers |->
        TransformerEncoderLayer(dim_model, DefaultEncoderNumHeads, dim_feedforward,
                                dropout)]]

\* TransformerEncoder.__init__
TransformerEncoder(num_layers, dim_model, num_heads, dim_feedforward, dropout) ==
    [layers |-> [i \in 1..num_layers |->
        TransformerEncoderLayer(dim_model, num_heads, dim_feedforward, dropout)]]

\* TransformerDecoder.__init__
TransformerDecoder(num_layers, dim_model, num_heads, dim_feedforward, dropout) ==
    [layers |-> [i \in 1..num_layers |->
        TransformerDecoderLayer(dim_model, num_heads, dim_feedforward, dropout)],
     linear |-> [in_features |-> dim_model, out_features |-> dim_model]]

\* Transformer.__init__
Transformer(num_encoder_layers, num_decoder_layers, dim_model, num_heads, dim_feedforward, dropout) ==
    [built |-> TRUE,
     num_encoder_layers |-> num_encoder_layers,
     num_decoder_layers |-> num_decoder_layers,
     dim_model |-> dim_model,
     num_heads |-> num_heads,
     dim_feedforward |-> dim_feedforward,
     dropout |-> dropout,
     encoder |-> TransformerEncoder(num_encoder_layers, dim_model, num_heads,
                                    dim_feedforward, dropout),
     decoder |-> TransformerDecoder(num_decoder_layers, dim_model, num_heads,
                                    dim_feedforward, dropout)]

\* dim_model // num_heads raises ZeroDivisionError when a layer is built
\* with num_heads = 0; nothing else in any __init__ raises
ConstructionRaises(num_encoder_layers, num_decoder_layers, dim_model, num_heads) ==
    num_heads = 0 /\ (num_encoder_layers > 0 \/ num_decoder_layers > 0)

\* dropout: float = 0.1, in tenths
DefaultDropout == 1

----------------------------------------------------------------------------
(* Modules: forward, shapes                                                *)

\* AttentionHead.forward
AttentionHead_forward(head, query, key, value) ==
    scaled_dot_product_attention(
        Linear(head.q.in_features, head.q.out_features, query),
        Linear(head.k.in_features, head.k.out_features, key),
        Linear(head.v.in_features, head.v.out_features, value))

\* torch.cat([h(query, key, value) for h in self.heads], dim=-1)
MultiHeadAttention_cat(mha, query, key, value) ==
    cat([h \in 1..Len(mha.heads) |->
            AttentionHead_forward(mha.heads[h], query, key, value)])

\* MultiHeadAttention.forward
MultiHeadAttention_forward(mha, query, key, value) ==
    Linear(mha.linear.in_features, mha.linear.out_features,
           MultiHeadAttention_cat(mha, query, key, value))

\* the nn.Sequential of feed_forward: Linear, ReLU, Linear
feed_forward_forward(ff, t) ==
    Linear(ff.linear_2.in_features, ff.linear_2.out_features,
           Linear(ff.linear_0.in_features, ff.linear_0.out_features, t))

\* self.sublayer(*tensors)
sublayer_forward(sublayer, tensors) ==
    IF sublayer.kind = "MultiHeadAttention"
    THEN IF Len(tensors) = 3
         THEN MultiHeadAttention_forward(sublayer, tensors[1], tensors[2], tensors[3])
         ELSE ShapeError
    ELSE IF Len(tensors) = 1 THEN feed_forward_forward(sublayer, tensors[1]) ELSE ShapeError

\* mutant: the residual base is the first argument
ResidualBase_first_argument(tensors) == tensors[1]

\* the residual base of Residual.forward: tensors[-1]
ResidualBase(tensors) == tensors[Len(tensors)]

\* Residual.forward (nn.Dropout keeps the shape)
Residual_forward(residual, tensors) ==
    LayerNorm(residual.norm,
              add(ResidualBase(tensors), sublayer_forward(residual.sublayer, tensors)))

\* mutant: pos is reshaped to (1, 1, seq_len) and dim to (1, dim_model, 1)
position_encoding_shape_transposed(seq_len, dim_model) ==
    add(Sh(1, 1, seq_len), Sh(1, dim_model, 1))

\* position_encoding(seq_len, dim_model): pos is (1, seq_len, 1), dim is
\* (1, 1, dim_model), and phase, torch.where broadcast them
position_encoding_shape(seq_len, dim_model) ==
    add(Sh(1, seq_len, 1), Sh(1, 1, dim_model))

(* position_encoding, values.  A phase is the real number                  *)
(* m * 10000^(-num/den), kept as [m, num, den] with num/den in lowest      *)
(* terms and 0 kept as [0, 0, 1]; for m below 10 two phases are the same   *)
(* number only if they are the same record (log10 of 2..9 is irrational).  *)
(* An entry of the encoding is [fn, phase], the number fn(phase); a phase  *)
(* is algebraic, so sin(phase) = 0 and cos(phase) = 1 only for phase 0,    *)
(* and sin or cos of two phases agree only if the phases do.               *)

RECURSIVE GCD(_, _)
GCD(a, b) == IF b = 0 THEN a ELSE GCD(b, a % b)

PhaseOf(m, num, den) ==
    IF m = 0 THEN [m |-> 0, num |-> 0, den |-> 1]
    ELSE IF num = 0 THEN [m |-> m, num |-> 0, den |-> 1]
    ELSE [m |-> m, num |-> num \div GCD(num, den), den |-> den \div GCD(num, den)]

\* dim // dim_model
phase_exponent(dim, dim_model) == dim \div dim_model

\* (pos / 1e4) ** e for an integer e >= 0; torch has 0 ** 0 = 1
phase_power(pos, e) ==
    IF e = 0 THEN PhaseOf(1, 0, 1) ELSE PhaseOf(pos ^ e, e, 1)

\* phase = (pos / 1e4) ** (dim // dim_model)
phase(pos, dim, dim_model) == phase_power(pos, phase_exponent(dim, dim_model))

\* torch.where(dim.long() % 2 == 0, torch.sin(phase), torch.cos(phase)):
\* row pos + 1, column dim + 1 of the encoding
position_encoding(seq_len, dim_model) ==
    [p \in 1..seq_len |-> [c \in 1..dim_model |->
        [fn |-> IF (c - 1) % 2 = 0 THEN "sin" ELSE "cos",
         phase |-> phase(p - 1, c - 1, dim_model)]]]

----------------------------------------------------------------------------
(* Values.  The value of a tensor is a term over the caller's inputs, the  *)
(* parameters of the module that computed it (named by side, layer, sub)   *)
(* and the dropout masks; terms are hash-consed in `nodes`, so two tensors *)
(* computed the same way from the same values have the same val.           *)

Node(op, side, k, sub, n, m, args) ==
    [op |-> op, side |-> side, layer |-> k, sub |-> sub, n |-> n, m |-> m, args |-> args]

Put(tbl, node) ==
    IF \E i \in 1..Len(tbl) : tbl[i] = node THEN tbl ELSE Append(tbl, node)

Id(tbl, node) == CHOOSE i \in 1..Len(tbl) : tbl[i] = node

\* mutant: dropout acts in every mode
DropoutActive_in_every_mode(residual, train) == residual.dropout > 0

\* nn.Dropout(p) samples a mask in training mode and is the identity in
\* evaluation mode (and for p = 0)
DropoutActive(residual, train) == train /\ residual.dropout > 0

\* mutant: every call of a wrapper draws a mask, whatever the mode
Residual_value_masked_in_every_mode(tbl, side, k, sub, residual, vals, mask, train) ==
    LET n1 == Node(residual.sublayer.kind, side, k, sub, 0, 0, vals)
        t1 == Put(tbl, n1)
        n2 == Node("Dropout", "", 0, "", mask + 1, 0, <<Id(t1, n1)>>)
        t2 == Put(t1, n2)
        n3 == Node("add", "", 0, "", 0, 0, <<ResidualBase(vals), Id(t2, n2)>>)
        t3 == Put(t2, n3)
        n4 == Node("LayerNorm", side, k, sub, 0, 0, <<Id(t3, n3)>>)
        t4 == Put(t3, n4)
    IN  [nodes |-> t4, val |-> Id(t4, n4), rng |-> mask + 1]

\* the value of Residual.forward(*tensors): [nodes, val, rng]
Residual_value(tbl, side, k, sub, residual, vals, mask, train) ==
    LET n1 == Node(residual.sublayer.kind, side, k, sub, 0, 0, vals)
        t1 == Put(tbl, n1)
        v1 == Id(t1, n1)
        n2 == Node("Dropout", "", 0, "", mask + 1, 0, <<v1>>)
        t2 == IF DropoutActive(residual, train) THEN Put(t1, n2) ELSE t1
        v2 == IF DropoutActive(residual, train) THEN Id(t2, n2) ELSE v1
        n3 == Node("add", "", 0, "", 0, 0, <<ResidualBase(vals), v2>>)
        t3 == Put(t2, n3)
        v3 == Id(t3, n3)
        n4 == Node("LayerNorm", side, k, sub, 0, 0, <<v3>>)
        t4 == Put(t3, n4)
    IN  [nodes |-> t4, val |-> Id(t4, n4),
         rng |-> IF DropoutActive(residual, train) THEN mask + 1 ELSE mask]

\* the value of t += position_encoding(seq_len, dimension): [nodes, val]
PositionEncoded_value(tbl, val, seq_len, dimension) ==
    LET n1 == Node("position_encoding", "", 0, "", seq_len, dimension, <<>>)
        t1 == Put(tbl, n1)
        n2 == Node("add", "", 0, "", 0, 0, <<val, Id(t1, n1)>>)
        t2 == Put(t1, n2)
    IN  [nodes |-> t2, val |-> Id(t2, n2)]

\* mutant: the final softmax is left out
Output_value_without_softmax(tbl, val) ==
    LET n1 == Node("Linear", "dec", 0, "linear", 0, 0, <<val>>)
        t1 == Put(tbl, n1)
    IN  [nodes |-> t1, val |-> Id(t1, n1)]

\* the value of torch.softmax(self.linear(tgt), dim=-1): [nodes, val]
Output_value(tbl, val) ==
    LET n1 == Node("Linear", "dec", 0, "linear", 0, 0, <<val>>)
        t1 == Put(tbl, n1)
        n2 == Node("softmax", "", 0, "", SoftmaxDim, 0, <<Id(t1, n1)>>)
        t2 == Put(t1, n2)
    IN  [nodes |-> t2, val |-> Id(t2, n2)]

----------------------------------------------------------------------------
(* Spec: a caller constructs a Transformer, makes a source and a target    *)
(* tensor, and calls the model on them, MaxCalls times at most.  A forward *)
(* call advances one sublayer at a time.                                   *)

Init ==
    /\ kpc = "off"
    /\ kin = [query |-> <<>>, key |-> <<>>, value |-> <<>>]
    /\ kres = NoKernelResult
    /\ ForwardIdle

\* Transformer(...): the constructor; nn.Module starts in training mode
Construct ==
    /\ pc = "new"
    /\ \E ne \in 0..MaxLayers, nd \in 0..MaxLayers, dm \in DimModels, nh \in Heads,
          dff \in FeedForwardDims :
        IF ConstructionRaises(ne, nd, dm, nh)
        THEN /\ pc' = "construct_error"
             /\ UNCHANGED model
        ELSE /\ pc' = "idle"
             /\ model' = Transformer(ne, nd, dm, nh, dff, DefaultDropout)
    /\ training' = TRUE
    /\ UNCHANGED <<kvars, heap, nodes, inputs, entry, x, mem, layer, log, outs, rng>>

\* model.eval(), before the first call
Eval ==
    /\ pc = "idle" /\ outs = <<>> /\ training
    /\ training' = FALSE
    /\ UNCHANGED <<kvars, pc, model, heap, nodes, inputs, entry, x, mem, layer, log, outs, rng>>

\* model.train(), before the first call
Train ==
    /\ pc = "idle" /\ outs = <<>> /\ ~training
    /\ training' = TRUE
    /\ UNCHANGED <<kvars, pc, model, heap, nodes, inputs, entry, x, mem, layer, log, outs, rng>>

\* src = torch.rand(...); tgt = torch.rand(...), or one tensor used as both
NewInputs ==
    /\ pc = "idle" /\ ~inputs.made
    /\ \E bs \in Batches, bt \in Batches, ls \in SeqLens, lt \in SeqLens,
          ds \in InputWidths, dt \in InputWidths, same \in BOOLEAN :
        LET n1 == Node("rand", "", 0, "", 1, 0, <<>>)
            n2 == Node("rand", "", 0, "", 2, 0, <<>>)
            t1 == Put(nodes, n1)
            t2 == Put(t1, n2)
        IN  IF same
            THEN /\ bs = bt /\ ls = lt /\ ds = dt
                 /\ heap' = <<[shape |-> Sh(bs, ls, ds), val |-> Id(t1, n1)]>>
                 /\ nodes' = t1
                 /\ inputs' = [made |-> TRUE, src |-> 1, tgt |-> 1]
            ELSE /\ heap' = <<[shape |-> Sh(bs, ls, ds), val |-> Id(t2, n1)],
                              [shape |-> Sh(bt, lt, dt), val |-> Id(t2, n2)]>>
                 /\ nodes' = t2
                 /\ inputs' = [made |-> TRUE, src |-> 1, tgt |-> 2]
    /\ UNCHANGED <<kvars, pc, model, training, entry, x, mem, layer, log, outs, rng>>

\* after the first call the caller replaces src and tgt by new tensors that
\* hold the values of the first ones (the same torch.rand draws)
NewInputsSameValues ==
    /\ pc = "idle" /\ inputs.made /\ Len(outs) = 1 /\ Len(outs) < MaxCalls
    /\ heap' = [i \in 1..Len(heap) |->
                  [shape |-> heap[i].shape,
                   val |-> Id(nodes, Node("rand", "", 0, "", i, 0, <<>>))]]
    /\ heap' # heap
    /\ UNCHANGED <<kvars, pc, model, training, nodes, inputs, entry, x, mem, layer, log,
                   outs, rng>>

\* the tensors the caller holds
NumInputs == IF inputs.src = inputs.tgt THEN 1 ELSE 2

\* Transformer.forward(src, tgt) is entered: self.encoder(src) is evaluated
\* first
Call ==
    /\ pc = "idle" /\ inputs.made /\ Len(outs) < MaxCalls
    /\ pc' = "enc_pe"
    /\ x' = inputs.src
    /\ mem' = 0
    /\ layer' = 0
    /\ log' = <<>>
    /\ entry' = [src |-> heap[inputs.src].val, tgt |-> heap[inputs.tgt].val]
    /\ UNCHANGED <<kvars, model, training, heap, nodes, inputs, outs, rng>>

\* an exception leaves forward: the call ends, its temporaries are freed
Raise(where) ==
    /\ pc' = "idle"
    /\ outs' = Append(outs, [ok |-> FALSE, shape |-> ShapeError, val |-> 0, err |-> where,
                             entry |-> entry])
    /\ heap' = SubSeq(heap, 1, NumInputs)
    /\ x' = 0
    /\ mem' = 0
    /\ layer' = 0
    /\ UNCHANGED <<kvars, model, training, nodes, inputs, entry, log, rng>>

LogEntry(side, k, sub, args, out) ==
    [side |-> side, layer |-> k, sub |-> sub, args |-> args, base |-> ResidualBase(args),
     out |-> out]

\* t += position_encoding(seq_len, dimension) on the object t, in place
AddPositionEncoding(side, t) ==
    LET seq_len == heap[t].shape.dims[2]
        dimension == heap[t].shape.dims[3]
        pv == PositionEncoded_value(nodes, heap[t].val, seq_len, dimension)
    IN  /\ heap' = [heap EXCEPT ![t] =
                      [shape |-> iadd(heap[t].shape,
                                      position_encoding_shape(seq_len, dimension)),
                       val |-> pv.val]]
        /\ nodes' = pv.nodes
        /\ log' = Append(log, LogEntry(side, 0, "position_encoding", <<t>>, t))

ShapesOf(ids) == [i \in 1..Len(ids) |-> heap[ids[i]].shape]
ValsOf(ids) == [i \in 1..Len(ids) |-> heap[ids[i]].val]

\* residual(*ids) returns: a new tensor object holds the result
ApplyResidual(side, sub, residual, ids) ==
    LET rv == Residual_value(nodes, side, layer, sub, residual, ValsOf(ids), rng, training)
    IN  /\ heap' = Append(heap, [shape |-> Residual_forward(residual, ShapesOf(ids)),
                                 val |-> rv.val])
        /\ nodes' = rv.nodes
        /\ rng' = rv.rng
        /\ log' = Append(log, LogEntry(side, layer, sub, ids, Len(heap) + 1))

\* mutant: the loop over self.layers is left out
EncoderPositionEncoding_without_layers ==
    /\ pc = "enc_pe"
    /\ AddPositionEncoding("enc", x)
    /\ pc' = "dec_pe"
    /\ mem' = x
    /\ x' = inputs.tgt
    /\ layer' = 0
    /\ UNCHANGED <<kvars, model, training, inputs, entry, outs, rng>>

\* TransformerEncoder.forward: src += position_encoding(seq_len, dimension)
EncoderPositionEncoding ==
    /\ pc = "enc_pe"
    /\ AddPositionEncoding("enc", x)
    /\ IF Len(model.encoder.layers) > 0
       THEN /\ pc' = "enc_attention"
            /\ layer' = 1
            /\ UNCHANGED <<x, mem>>
       ELSE /\ pc' = "dec_pe"
            /\ mem' = x
            /\ x' = inputs.tgt
            /\ layer' = 0
    /\ UNCHANGED <<kvars, model, training, inputs, entry, outs, rng>>

\* TransformerEncoderLayer.forward: src = self.attention(src, src, src)
EncoderAttention ==
    /\ pc = "enc_attention"
    /\ LET residual == model.encoder.layers[layer].attention
           ids == <<x, x, x>>
       IN  IF Residual_forward(residual, ShapesOf(ids)).ok
           THEN /\ ApplyResidual("enc", "attention", residual, ids)
                /\ x' = Len(heap) + 1
                /\ pc' = "enc_feed_forward"
                /\ UNCHANGED <<kvars, model, training, inputs, entry, mem, layer, outs>>
           ELSE Raise("encoder.attention")

\* TransformerEncoderLayer.forward: return self.feed_forward(src), then the
\* next layer or the return of TransformerEncoder.forward
EncoderFeedForward ==
    /\ pc = "enc_feed_forward"
    /\ LET residual == model.encoder.layers[layer].feed_forward
           ids == <<x>>
       IN  IF Residual_forward(residual, ShapesOf(ids)).ok
           THEN /\ ApplyResidual("enc", "feed_forward", residual, ids)
                /\ IF layer < Len(model.encoder.layers)
                   THEN /\ pc' = "enc_attention"
                        /\ layer' = layer + 1
                        /\ x' = Len(heap) + 1
                        /\ UNCHANGED mem
                   ELSE /\ pc' = "dec_pe"
                        /\ mem' = Len(heap) + 1
                        /\ x' = inputs.tgt
                        /\ layer' = 0
                /\ UNCHANGED <<kvars, model, training, inputs, entry, outs>>
           ELSE Raise("encoder.feed_forward")

\* TransformerDecoder.forward: tgt += position_encoding(seq_len, dimension)
DecoderPositionEncoding ==
    /\ pc = "dec_pe"
    /\ AddPositionEncoding("dec", x)
    /\ IF Len(model.decoder.layers) > 0
       THEN /\ pc' = "dec_attention_1"
            /\ layer' = 1
       ELSE /\ pc' = "dec_out"
            /\ layer' = 0
    /\ UNCHANGED <<kvars, model, training, inputs, entry, x, mem, outs, rng>>

\* TransformerDecoderLayer.forward: tgt = self.attention_1(tgt, tgt, tgt)
DecoderAttention1 ==
    /\ pc = "dec_attention_1"
    /\ LET residual == model.decoder.layers[layer].attention_1
           ids == <<x, x, x>>
       IN  IF Residual_forward(residual, ShapesOf(ids)).ok
           THEN /\ ApplyResidual("dec", "attention_1", residual, ids)
                /\ x' = Len(heap) + 1
                /\ pc' = "dec_attention_2"
                /\ UNCHANGED <<kvars, model, training, inputs, entry, mem, layer, outs>>
           ELSE Raise("decoder.attention_1")

\* mutant: cross-attention is called on the memory alone
Attention2Args_without_target(memory, tgt) == <<memory, memory, memory>>

\* the arguments of TransformerDecoderLayer.forward's
\* self.attention_2(memory, memory, tgt)
Attention2Args(memory, tgt) == <<memory, memory, tgt>>

\* TransformerDecoderLayer.forward: tgt = self.attention_2(memory, memory, tgt)
DecoderAttention2 ==
    /\ pc = "dec_attention_2"
    /\ LET residual == model.decoder.layers[layer].attention_2
           ids == Attention2Args(mem, x)
       IN  IF Residual_forward(residual, ShapesOf(ids)).ok
           THEN /\ ApplyResidual("dec", "attention_2", residual, ids)
                /\ x' = Len(heap) + 1
                /\ pc' = "dec_feed_forward"
                /\ UNCHANGED <<kvars, model, training, inputs, entry, mem, layer, outs>>
           ELSE Raise("decoder.attention_2")

\* TransformerDecoderLayer.forward: return self.feed_forward(tgt), then the
\* next layer or the end of the loop of TransformerDecoder.forward
DecoderFeedForward ==
    /\ pc = "dec_feed_forward"
    /\ LET residual == model.decoder.layers[layer].feed_forward
           ids == <<x>>
       IN  IF Residual_forward(residual, ShapesOf(ids)).ok
           THEN /\ ApplyResidual("dec", "feed_forward", residual, ids)
                /\ x' = Len(heap) + 1
                /\ IF layer < Len(model.decoder.layers)
                   THEN /\ pc' = "dec_attention_1"
                        /\ layer' = layer + 1
                   ELSE /\ pc' = "dec_out"
                        /\ layer' = 0
                /\ UNCHANGED <<kvars, model, training, inputs, entry, mem, outs>>
           ELSE Raise("decoder.feed_forward")

\* the shape of torch.softmax(self.linear(tgt), dim=-1)
Output_shape(linear, t) ==
    softmax_shape(Linear(linear.in_features, linear.out_features, t))

\* TransformerDecoder.forward: return torch.softmax(self.linear(tgt), dim=-1),
\* which Transformer.forward returns to the caller
DecoderOutput ==
    /\ pc = "dec_out"
    /\ LET shape == Output_shape(model.decoder.linear, heap[x].shape)
           ov == Output_value(nodes, heap[x].val)
       IN  IF shape.ok
           THEN /\ outs' = Append(outs, [ok |-> TRUE, shape |-> shape, val |-> ov.val,
                                         err |-> "", entry |-> entry])
                /\ nodes' = ov.nodes
                /\ log' = Append(log, LogEntry("dec", 0, "output", <<x>>, Len(heap) + 1))
                /\ heap' = SubSeq(heap, 1, NumInputs)
                /\ pc' = "idle"
                /\ x' = 0
                /\ mem' = 0
                /\ layer' = 0
                /\ UNCHANGED <<kvars, model, training, inputs, entry, rng>>
           ELSE Raise("decoder.linear")

Next ==
    \/ Construct
    \/ Eval
    \/ Train
    \/ NewInputs
    \/ NewInputsSameValues
    \/ Call
    \/ EncoderPositionEncoding
    \/ EncoderAttention
    \/ EncoderFeedForward
    \/ DecoderPositionEncoding
    \/ DecoderAttention1
    \/ DecoderAttention2
    \/ DecoderFeedForward
    \/ DecoderOutput

Spec == Init /\ [][Next]_vars

----------------------------------------------------------------------------
(* SpecUnit: one call of a function of the notebook on its own, on inputs  *)
(* drawn from the bounded sets.                                            *)

\* MultiHeadAttention(num_heads, dim_in, dim_k, dim_v)(t, t, t), t of any width
MultiHeadInputs ==
    { [fn |-> "MultiHeadAttention", num_heads |-> h, dim_in |-> d, dim_k |-> dk,
       dim_v |-> dv, input |-> Sh(b, l, w)] :
        h \in 0..MaxUnitHeads, d \in 1..MaxKernelDim, dk \in 0..MaxKernelDim,
        dv \in 0..MaxKernelDim, b \in 1..MaxBatch, l \in 1..MaxSeq,
        w \in 1..MaxKernelDim }

MultiHeadResult(num_heads, dim_in, dim_k, dim_v, t) ==
    LET mha == MultiHeadAttention(num_heads, dim_in, dim_k, dim_v)
    IN  [shape |-> MultiHeadAttention_forward(mha, t, t, t),
         cat |-> MultiHeadAttention_cat(mha, t, t, t),
         fusion |-> mha.linear]

MultiHeadCall ==
    /\ kpc = "ready"
    /\ kin.fn = "MultiHeadAttention"
    /\ kres' = MultiHeadResult(kin.num_heads, kin.dim_in, kin.dim_k, kin.dim_v, kin.input)
    /\ kpc' = "done"
    /\ UNCHANGED <<kin, fvars>>

\* position_encoding(seq_len, dim_model)
EncodingInputs ==
    { [fn |-> "position_encoding", seq_len |-> n, dim_model |-> d] :
        n \in 0..(MaxSeq + 1), d \in 0..MaxEncodingDim }

PositionEncodingCall ==
    /\ kpc = "ready"
    /\ kin.fn = "position_encoding"
    /\ kres' = [shape |-> position_encoding_shape(kin.seq_len, kin.dim_model),
                enc |-> position_encoding(kin.seq_len, kin.dim_model)]
    /\ kpc' = "done"
    /\ UNCHANGED <<kin, fvars>>

(* Residual.forward on concrete tensors, around a sublayer that returns   *)
(* zeros or its first argument.  nn.Dropout(p) in training mode multiplies *)
(* the kept entries by 1 / (1 - p); with p in tenths the entries of the    *)
(* sum are kept exactly as numerators over 10 - p (over 1 when dropout is  *)
(* the identity).  The LayerNorm is kept as a term around the sum.         *)

zeros_like(t) == [b \in 1..Len(t) |-> [i \in 1..Len(t[b]) |-> [c \in 1..Len(t[b][i]) |-> 0]]]

\* self.sublayer(*tensors) for the stand-in sublayers
stub_forward(sublayer, tensors) ==
    IF sublayer.returns = "zeros" THEN zeros_like(tensors[1]) ELSE tensors[1]

Masks(t) == [1..Len(t) -> [1..Len(t[1]) -> [1..Len(t[1][1]) -> {0, 1}]]]

\* self.norm(tensors[-1] + self.dropout(self.sublayer(*tensors)))
Residual_call(residual, tensors, mask, train) ==
    LET out == stub_forward(residual.sublayer, tensors)
        base == ResidualBase(tensors)
        den == IF DropoutActive(residual, train) THEN 10 - residual.dropout ELSE 1
    IN  [op |-> "LayerNorm", dimension |-> residual.norm, den |-> den,
         of |-> [b \in 1..Len(base) |-> [i \in 1..Len(base[b]) |->
                    [c \in 1..Len(base[b][i]) |->
                        IF DropoutActive(residual, train)
                        THEN den * base[b][i][c] + 10 * mask[b][i][c] * out[b][i][c]
                        ELSE base[b][i][c] + out[b][i][c]]]]]

\* norm(t) for a tensor t
norm_of(dimension, t) == [op |-> "LayerNorm", dimension |-> dimension, den |-> 1, of |-> t]

\* Residual(sublayer, dimension, dropout)(*tensors), one to three tensors
ResidualInputs ==
    { [fn |-> "Residual", returns |-> r, dropout |-> p, train |-> t,
       tensors |-> [k \in 1..n |-> Gen((seeds \div (2 ^ (k - 1))) % 2, 1, l, d)]] :
        r \in {"zeros", "first"}, p \in {0, DefaultDropout}, t \in BOOLEAN,
        n \in 1..3, seeds \in 0..7, l \in 1..MaxSeq, d \in 1..MaxKernelDim }

ResidualCall ==
    /\ kpc = "ready"
    /\ kin.fn = "Residual"
    /\ \E mask \in Masks(kin.tensors[1]) :
        LET residual == Residual([kind |-> "stub", returns |-> kin.returns],
                                 Len(kin.tensors[1][1][1]), kin.dropout)
        IN  /\ DropoutActive(residual, kin.train) \/ mask = zeros_like(kin.tensors[1])
            /\ kres' = [shape |-> ShapeOf(kin.tensors[1]), mask |-> mask,
                        out |-> Residual_call(residual, kin.tensors, mask, kin.train)]
    /\ kpc' = "done"
    /\ UNCHANGED <<kin, fvars>>

\* TransformerEncoderLayer(dim_model, num_heads) and
\* TransformerDecoderLayer(dim_model, num_heads), the defaults among them
LayerInputs ==
    { [fn |-> "layer", layer_class |-> c, dim_model |-> d, num_heads |-> h,
       dim_feedforward |-> f] :
        c \in {"TransformerEncoderLayer", "TransformerDecoderLayer"},
        f \in FeedForwardDims,
        d \in (1..MaxEncodingDim) \cup {DefaultDimModel},
        h \in (0..MaxUnitHeads) \cup {DefaultNumHeads} }

\* the attention Residuals of a layer
AttentionsOf(layer_class, dim_model, num_heads, dim_feedforward) ==
    IF layer_class = "TransformerEncoderLayer"
    THEN <<TransformerEncoderLayer(dim_model, num_heads, dim_feedforward,
                                   DefaultDropout).attention>>
    ELSE LET l == TransformerDecoderLayer(dim_model, num_heads, dim_feedforward,
                                          DefaultDropout)
         IN  <<l.attention_1, l.attention_2>>

\* a layer is constructed; ZeroDivisionError leaves nothing built
LayerConstructCall ==
    /\ kpc = "ready"
    /\ kin.fn = "layer"
    /\ kres' = IF ConstructionRaises(1, 1, kin.dim_model, kin.num_heads)
               THEN [shape |-> ShapeError, raised |-> TRUE, attentions |-> <<>>]
               ELSE [shape |-> ShapeError, raised |-> FALSE,
                     attentions |->
                        AttentionsOf(kin.layer_class, kin.dim_model, kin.num_heads,
                                     kin.dim_feedforward)]
    /\ kpc' = "done"
    /\ UNCHANGED <<kin, fvars>>

UnitInit ==
    /\ kpc = "ready"
    /\ \/ kin \in MultiHeadInputs
       \/ kin \in EncodingInputs
       \/ kin \in ResidualInputs
       \/ kin \in LayerInputs
    /\ kres = [shape |-> ShapeError]
    /\ ForwardIdle

UnitNext ==
    \/ MultiHeadCall
    \/ PositionEncodingCall
    \/ ResidualCall
    \/ LayerConstructCall

SpecUnit == UnitInit /\ [][UnitNext]_vars

----------------------------------------------------------------------------
(* SpecConcurrent: two threads call forward on one model in evaluation     *)
(* mode, on the same two tensor objects or on two tensors each.  There is  *)
(* no lock in the code, so the steps of the calls interleave freely.  The  *)
(* tensors the caller passes live in `heap`, whose value here is           *)
(* [rand, pe]: the caller's random tensor `rand` with position_encoding    *)
(* added `pe` times.  Each call has its own temporaries and its own table  *)
(* of value terms; a reference is [arg, id], an argument object of `heap`  *)
(* or a temporary of the call.                                             *)

\* F(v), with v evaluated once
With(v, F(_)) == CHOOSE y \in {F(w) : w \in {v}} : TRUE

ArgRef(id) == [arg |-> TRUE, id |-> id]
TmpRef(id) == [arg |-> FALSE, id |-> id]

NewCall(src, tgt) ==
    [pc |-> "start", src |-> src, tgt |-> tgt, x |-> ArgRef(src), memory |-> ArgRef(src),
     layer |-> 0, temps |-> <<>>, nodes |-> <<>>,
     out |-> [ok |-> FALSE, shape |-> ShapeError, val |-> 0], raced |-> FALSE]

Active(c) == c.pc \notin {"start", "done", "raised"}

\* the value term of an argument object, in the table tbl: [nodes, val]
RECURSIVE ArgValue(_, _, _)
ArgValue(tbl, v, shape) ==
    IF v.pe = 0
    THEN LET n == Node("rand", "", 0, "", v.rand, 0, <<>>)
             t == Put(tbl, n)
         IN  [nodes |-> t, val |-> Id(t, n)]
    ELSE With(ArgValue(tbl, [v EXCEPT !.pe = @ - 1], shape),
              LAMBDA r : PositionEncoded_value(r.nodes, r.val, shape.dims[2], shape.dims[3]))

ShapeAt(c, hp, ref) == IF ref.arg THEN hp[ref.id].shape ELSE c.temps[ref.id].shape

\* reading a tensor: [nodes, val]
ValueAt(c, hp, tbl, ref) ==
    IF ref.arg THEN ArgValue(tbl, hp[ref.id].val, hp[ref.id].shape)
    ELSE [nodes |-> tbl, val |-> c.temps[ref.id].val]

\* reading the first n of refs, in order: [nodes, vals]
RECURSIVE ValuesAt(_, _, _, _)
ValuesAt(c, hp, refs, n) ==
    IF n = 0 THEN [nodes |-> c.nodes, vals |-> <<>>]
    ELSE With(ValuesAt(c, hp, refs, n - 1), LAMBDA r :
            With(ValueAt(c, hp, r.nodes, refs[n]), LAMBDA v :
                [nodes |-> v.nodes, vals |-> Append(r.vals, v.val)]))

\* residual(*refs) in the call c: the call with x the new temporary and pc
\* next, or the call raised
CallResidual(c, hp, side, sub, residual, refs, next) ==
    With(Residual_forward(residual, [k \in 1..Len(refs) |-> ShapeAt(c, hp, refs[k])]),
         LAMBDA shape :
            IF shape.ok
            THEN With(ValuesAt(c, hp, refs, Len(refs)), LAMBDA read :
                 With(Residual_value(read.nodes, side, c.layer, sub, residual, read.vals,
                                     0, FALSE), LAMBDA rv :
                    [c EXCEPT !.nodes = rv.nodes,
                              !.temps = Append(@, [shape |-> shape, val |-> rv.val]),
                              !.x = TmpRef(Len(c.temps) + 1),
                              !.pc = next]))
            ELSE [c EXCEPT !.pc = "raised"])

\* t += position_encoding(...) on the argument object o of the heap hp
HeapPositionEncoded(hp, o) == [hp EXCEPT ![o].val.pe = @ + 1]

\* one step of the forward call c of the model m on the heap hp:
\* [call, heap, wrote] (wrote: the object written in place, 0 for none)
CallStep(c, hp, m) ==
    CASE c.pc = "start" ->
            [call |-> [c EXCEPT !.pc = "enc_pe", !.x = ArgRef(c.src)], heap |-> hp, wrote |-> 0]
      [] c.pc = "enc_pe" ->
            [call |-> IF Len(m.encoder.layers) > 0
                      THEN [c EXCEPT !.pc = "enc_attention", !.layer = 1]
                      ELSE [c EXCEPT !.pc = "dec_pe", !.memory = c.x, !.x = ArgRef(c.tgt)],
             heap |-> HeapPositionEncoded(hp, c.x.id), wrote |-> c.x.id]
      [] c.pc = "enc_attention" ->
            [call |-> CallResidual(c, hp, "enc", "attention",
                                   m.encoder.layers[c.layer].attention, <<c.x, c.x, c.x>>,
                                   "enc_feed_forward"),
             heap |-> hp, wrote |-> 0]
      [] c.pc = "enc_feed_forward" ->
            With(CallResidual(c, hp, "enc", "feed_forward",
                              m.encoder.layers[c.layer].feed_forward, <<c.x>>,
                              "enc_attention"), LAMBDA r :
                [call |-> IF r.pc = "raised" THEN r
                          ELSE IF c.layer < Len(m.encoder.layers)
                          THEN [r EXCEPT !.layer = @ + 1]
                          ELSE [r EXCEPT !.pc = "dec_pe", !.memory = r.x,
                                         !.x = ArgRef(c.tgt), !.layer = 0],
                 heap |-> hp, wrote |-> 0])
      [] c.pc = "dec_pe" ->
            [call |-> IF Len(m.decoder.layers) > 0
                      THEN [c EXCEPT !.pc = "dec_attention_1", !.layer = 1]
                      ELSE [c EXCEPT !.pc = "dec_out"],
             heap |-> HeapPositionEncoded(hp, c.x.id), wrote |-> c.x.id]
      [] c.pc = "dec_attention_1" ->
            [call |-> CallResidual(c, hp, "dec", "attention_1",
                                   m.decoder.layers[c.layer].attention_1, <<c.x, c.x, c.x>>,
                                   "dec_attention_2"),
             heap |-> hp, wrote |-> 0]
      [] c.pc = "dec_attention_2" ->
            [call |-> CallResidual(c, hp, "dec", "attention_2",
                                   m.decoder.layers[c.layer].attention_2,
                                   Attention2Args(c.memory, c.x), "dec_feed_forward"),
             heap |-> hp, wrote |-> 0]
      [] c.pc = "dec_feed_forward" ->
            With(CallResidual(c, hp, "dec", "feed_forward",
                              m.decoder.layers[c.layer].feed_forward, <<c.x>>,
                              "dec_attention_1"), LAMBDA r :
                [call |-> IF r.pc = "raised" THEN r
                          ELSE IF c.layer < Len(m.decoder.layers)
                          THEN [r EXCEPT !.layer = @ + 1]
                          ELSE [r EXCEPT !.pc = "dec_out", !.layer = 0],
                 heap |-> hp, wrote |-> 0])
      [] c.pc = "dec_out" ->
            With(Output_shape(m.decoder.linear, ShapeAt(c, hp, c.x)), LAMBDA shape :
            With(ValueAt(c, hp, c.nodes, c.x), LAMBDA read :
            With(Output_value(read.nodes, read.val), LAMBDA ov :
                [call |-> IF shape.ok
                          THEN [c EXCEPT !.pc = "done", !.nodes = ov.nodes, !.temps = <<>>,
                                         !.out = [ok |-> TRUE, shape |-> shape, val |-> ov.val]]
                          ELSE [c EXCEPT !.pc = "raised"],
                 heap |-> hp, wrote |-> 0])))

\* a model in evaluation mode, the tensors, and two calls not yet entered
ConcurrentInit ==
    /\ kpc = "off"
    /\ kin = [query |-> <<>>, key |-> <<>>, value |-> <<>>]
    /\ kres = NoKernelResult
    /\ pc = "idle"
    /\ \E ne \in ConcurrentLayers, nd \in ConcurrentLayers, dm \in DimModels,
          nh \in ConcurrentHeads, dff \in FeedForwardDims :
        model = Transformer(ne, nd, dm, nh, dff, DefaultDropout)
    /\ training = FALSE
    /\ \E b \in Batches, l \in SeqLens, shared \in BOOLEAN :
        /\ heap = [o \in 1..(IF shared THEN 2 ELSE 4) |->
                      [shape |-> Sh(b, l, model.dim_model), val |-> [rand |-> o, pe |-> 0]]]
        /\ calls = <<NewCall(1, 2), IF shared THEN NewCall(1, 2) ELSE NewCall(3, 4)>>
    /\ nodes = <<>>
    /\ inputs = [made |-> TRUE, src |-> 1, tgt |-> 2]
    /\ entry = [src |-> 0, tgt |-> 0]
    /\ x = 0
    /\ mem = 0
    /\ layer = 0
    /\ log = <<>>
    /\ outs = <<>>
    /\ rng = 0
    /\ pg = [pc |-> "off"]

\* the call i takes its next step; a step that writes an argument object in
\* place while another call that was given this object is running is a race
ConcurrentStep(i) ==
    /\ calls[i].pc \notin {"done", "raised"}
    /\ \E s \in {CallStep(calls[i], heap, model)} :
        LET race == /\ s.wrote # 0
                    /\ \E j \in 1..Len(calls) :
                         /\ j # i
                         /\ Active(calls[j])
                         /\ s.wrote \in {calls[j].src, calls[j].tgt}
        IN  /\ calls' = [calls EXCEPT ![i] = [s.call EXCEPT !.raced = @ \/ race]]
            /\ heap' = s.heap
    /\ UNCHANGED <<kpc, kin, kres, pc, model, training, nodes, inputs, entry, x, mem, layer,
                   log, outs, rng, pg>>

ConcurrentNext == \E i \in 1..Len(calls) : ConcurrentStep(i)

SpecConcurrent == ConcurrentInit /\ [][ConcurrentNext]_vars

\* the call run alone to its end
RECURSIVE RunAlone(_, _, _)
RunAlone(c, hp, m) ==
    IF c.pc \in {"done", "raised"} THEN c
    ELSE With(CallStep(c, hp, m), LAMBDA s : RunAlone(s.call, s.heap, m))

\* what the call i returns when it runs alone on the tensors as the caller
\* made them (its terms entered in the table of the call i)
AloneOutput(i) ==
    With([o \in 1..Len(heap) |-> [heap[o] EXCEPT !.val.pe = 0]], LAMBDA hp :
        RunAlone([NewCall(calls[i].src, calls[i].tgt) EXCEPT !.nodes = calls[i].nodes],
                 hp, model).out)

----------------------------------------------------------------------------
(* SpecGuard: PromptGuard.get_scores_for_texts, called through one of its  *)
(* wrappers.  A text is its length; a chunk is [index, from, to], the      *)
(* characters from..to-1 of texts[index] (index counts from 0, as in the   *)
(* code).  The classifier is a function of the chunk: a row of class       *)
(* probabilities in quarters.                                              *)

Min(a, b) == IF a < b THEN a ELSE b
Max(a, b) == IF a > b THEN a ELSE b

\* ceil(a / b)
CeilDiv(a, b) == (a + b - 1) \div b

\* mutant: only the full chunks are kept, the remainder of the text is lost
chunks_without_remainder(index, len) ==
    [k \in 1..(len \div ChunkSize) |->
        [index |-> index, from |-> (k - 1) * ChunkSize, to |-> k * ChunkSize]]

\* [text[i:i+512] for i in range(0, len(text), 512)] for texts[index]
chunks(index, len) ==
    [k \in 1..CeilDiv(len, ChunkSize) |->
        [index |-> index, from |-> (k - 1) * ChunkSize, to |-> Min(k * ChunkSize, len)]]

\* mutant: one index is recorded for each text, not for each chunk
RECURSIVE ChunkLists_one_index_per_text(_, _)
ChunkLists_one_index_per_text(texts, n) ==
    IF n = 0 THEN [all_chunks |-> <<>>, text_indices |-> <<>>]
    ELSE LET r == ChunkLists_one_index_per_text(texts, n - 1)
         IN  [all_chunks |-> r.all_chunks \o chunks(n - 1, texts[n]),
              text_indices |-> Append(r.text_indices, n - 1)]

\* the loop over enumerate(texts), after n texts: [all_chunks, text_indices]
RECURSIVE ChunkLists(_, _)
ChunkLists(texts, n) ==
    IF n = 0 THEN [all_chunks |-> <<>>, text_indices |-> <<>>]
    ELSE LET r == ChunkLists(texts, n - 1)
             c == chunks(n - 1, texts[n])
         IN  [all_chunks |-> r.all_chunks \o c,
              text_indices |-> r.text_indices \o [k \in 1..Len(c) |-> n - 1]]

\* mutant: the slice stops one element early
batch_slice_one_short(list, i, max_batch_size) ==
    SubSeq(list, i + 1, Min(i + max_batch_size - 1, Len(list)))

\* list[i:i+max_batch_size]
batch_slice(list, i, max_batch_size) ==
    SubSeq(list, i + 1, Min(i + max_batch_size, Len(list)))

ProbabilityRows == <<(<<2, 1, 1>>), (<<1, 1, 2>>), (<<1, 2, 1>>)>>

\* the row of process_text_batch for one chunk
probabilities(seed, chunk) ==
    ProbabilityRows[1 + ((seed + chunk.index + (chunk.from \div ChunkSize)) % 3)]

\* probabilities[:, score_indices].sum(dim=1) for one row
score_of(row, score_indices) ==
    SumTo([k \in 1..Len(score_indices) |-> row[score_indices[k] + 1]], Len(score_indices))

\* mutant: the score of the chunk replaces the score of the text
RECURSIVE fold_scores_overwriting(_, _, _, _)
fold_scores_overwriting(all_scores, batch_indices, scores, n) ==
    IF n = 0 THEN all_scores
    ELSE LET r == fold_scores_overwriting(all_scores, batch_indices, scores, n - 1)
         IN  [r EXCEPT ![batch_indices[n] + 1] = scores[n]]

\* for idx, score in zip(batch_indices, scores):
\*     all_scores[idx] = max(all_scores[idx], score)
\* after the first n pairs
RECURSIVE fold_scores(_, _, _, _)
fold_scores(all_scores, batch_indices, scores, n) ==
    IF n = 0 THEN all_scores
    ELSE LET r == fold_scores(all_scores, batch_indices, scores, n - 1)
         IN  [r EXCEPT ![batch_indices[n] + 1] = Max(@, scores[n])]

\* the chunks folded into each score, after the first n pairs
RECURSIVE fold_sources(_, _, _, _)
fold_sources(sources, batch_indices, batch_chunks, n) ==
    IF n = 0 THEN sources
    ELSE LET r == fold_sources(sources, batch_indices, batch_chunks, n - 1)
         IN  [r EXCEPT ![batch_indices[n] + 1] = @ \cup {batch_chunks[n]}]

\* mutant: the two wrappers pass each other's indices
score_indices_of_swapped(wrapper) ==
    IF wrapper = "get_jailbreak_scores_for_texts" THEN <<1, 2>> ELSE <<2>>

\* get_jailbreak_scores_for_texts passes [2], get_indirect_injection_scores_for_texts [1, 2]
score_indices_of(wrapper) ==
    IF wrapper = "get_jailbreak_scores_for_texts" THEN <<2>> ELSE <<1, 2>>

\* the loop `for i in range(0, len(all_chunks), max_batch_size)` from i on:
\* the all_scores it ends with
RECURSIVE scores_from(_, _, _, _, _, _)
scores_from(lists, all_scores, i, score_indices, seed, max_batch_size) ==
    IF i >= Len(lists.all_chunks) THEN all_scores
    ELSE LET batch_chunks == batch_slice(lists.all_chunks, i, max_batch_size)
             batch_indices == batch_slice(lists.text_indices, i, max_batch_size)
             scores == [k \in 1..Len(batch_chunks) |->
                          score_of(probabilities(seed, batch_chunks[k]), score_indices)]
         IN  scores_from(lists,
                         fold_scores(all_scores, batch_indices, scores,
                                     Min(Len(batch_indices), Len(scores))),
                         i + max_batch_size, score_indices, seed, max_batch_size)

\* get_scores_for_texts(texts, score_indices, temperature, max_batch_size)
\* for max_batch_size >= 1, the classifier being that of seed
get_scores_for_texts(texts, score_indices, seed, max_batch_size) ==
    scores_from(ChunkLists(texts, Len(texts)), [t \in 1..Len(texts) |-> 0], 0,
                score_indices, seed, max_batch_size)

RECURSIVE TextLists(_)
TextLists(n) ==
    IF n = 0 THEN {<<>>}
    ELSE TextLists(n - 1) \cup
         {Append(t, l) : t \in {u \in TextLists(n - 1) : Len(u) = n - 1}, l \in TextLengths}

GuardInit ==
    /\ kpc = "off"
    /\ kin = [query |-> <<>>, key |-> <<>>, value |-> <<>>]
    /\ kres = NoKernelResult
    /\ pc = "new"
    /\ model = [built |-> FALSE]
    /\ training = TRUE
    /\ heap = <<>>
    /\ nodes = <<>>
    /\ inputs = [made |-> FALSE, src |-> 0, tgt |-> 0]
    /\ entry = [src |-> 0, tgt |-> 0]
    /\ x = 0
    /\ mem = 0
    /\ layer = 0
    /\ log = <<>>
    /\ outs = <<>>
    /\ rng = 0
    /\ calls = <<>>
    /\ \E texts \in TextLists(MaxTexts), mbs \in 0..MaxBatchSize, seed \in 0..2,
          wrapper \in {"get_jailbreak_scores_for_texts",
                       "get_indirect_injection_scores_for_texts"} :
        pg = [pc |-> "call", wrapper |-> wrapper, texts |-> texts, max_batch_size |-> mbs,
              seed |-> seed, score_indices |-> <<>>, all_chunks |-> <<>>,
              text_indices |-> <<>>, all_scores |-> <<>>, i |-> 0, batches |-> <<>>,
              sources |-> <<>>, result |-> <<>>]

\* the wrapper calls get_scores_for_texts, which builds all_chunks,
\* text_indices and all_scores and enters its loop over the batches;
\* range(0, len(all_chunks), 0) raises
GuardCall ==
    /\ pg.pc = "call"
    /\ LET lists == ChunkLists(pg.texts, Len(pg.texts))
       IN  pg' = [pg EXCEPT !.pc = IF pg.max_batch_size = 0 THEN "raised" ELSE "loop",
                            !.score_indices = score_indices_of(pg.wrapper),
                            !.all_chunks = lists.all_chunks,
                            !.text_indices = lists.text_indices,
                            !.all_scores = [t \in 1..Len(pg.texts) |-> 0],
                            !.sources = [t \in 1..Len(pg.texts) |-> {}],
                            !.i = 0]
    /\ UNCHANGED tvars

\* one pass of `for i in range(0, len(all_chunks), max_batch_size)`
GuardBatch ==
    /\ pg.pc = "loop"
    /\ pg.i < Len(pg.all_chunks)
    /\ LET batch_chunks == batch_slice(pg.all_chunks, pg.i, pg.max_batch_size)
           batch_indices == batch_slice(pg.text_indices, pg.i, pg.max_batch_size)
           scores == [k \in 1..Len(batch_chunks) |->
                        score_of(probabilities(pg.seed, batch_chunks[k]), pg.score_indices)]
           pairs == Min(Len(batch_indices), Len(scores))
       IN  pg' = [pg EXCEPT !.batches = Append(@, batch_chunks),
                            !.all_scores = fold_scores(@, batch_indices, scores, pairs),
                            !.sources = fold_sources(@, batch_indices, batch_chunks, pairs),
                            !.i = @ + pg.max_batch_size]
    /\ UNCHANGED tvars

\* the range is exhausted: return all_scores
GuardReturn ==
    /\ pg.pc = "loop"
    /\ pg.i >= Len(pg.all_chunks)
    /\ pg' = [pg EXCEPT !.pc = "done", !.result = pg.all_scores]
    /\ UNCHANGED tvars

GuardNext ==
    \/ GuardCall
    \/ GuardBatch
    \/ GuardReturn

SpecGuard == GuardInit /\ [][GuardNext]_vars

\* the interpreter runs the loop on: a step that can be taken is taken
SpecGuardFair == SpecGuard /\ WF_vars(GuardNext)

----------------------------------------------------------------------------
(* Claims about scaled_dot_product_attention (SpecKernel)                  *)

KernelDone == kpc = "done"

\* C9: for query (B, Lq, dk), key (B, Lk, dk) and value (B, Lk, dv),
\* scaled_dot_product_attention returns a tensor of shape (B, Lq, dv).
C9_KernelOutputShape ==
    (KernelDone /\ KernelInputsFit) =>
        /\ kres.ok
        /\ kres.shape = Sh(Len(kin.query), Len(kin.query[1]), Len(kin.value[1][1]))
        /\ ShapeOf(kres.out) = kres.shape

\* C9 witness: a completed call with Lq # Lk and dk # dv
C9_Witness ==
    /\ KernelDone /\ KernelInputsFit /\ kres.ok
    /\ Len(kin.query[1]) # Len(kin.key[1])
    /\ Len(kin.query[1][1]) # Len(kin.value[1][1])
    /\ Len(kin.query) > 1

\* C10: the attention weights have shape (B, Lq, Lk); for every batch element
\* and query position the weights over the key positions are non-negative
\* and sum to 1; each weight is the softmax of the scores q.k / sqrt(dk).
C10_WeightsNormalisedOverKeys ==
    (KernelDone /\ kres.ok) =>
        /\ ShapeOf(kres.weights) = Sh(Len(kin.query), Len(kin.query[1]), Len(kin.key[1]))
        /\ \A b \in 1..Len(kin.query) : \A i \in 1..Len(kin.query[1]) :
            /\ RowSum(kres.weights, b, i).num = RowSum(kres.weights, b, i).den
            /\ \A j \in 1..Len(kin.key[1]) :
                /\ Frac(kres.weights[b][i][j]).num >= 0
                /\ Frac(kres.weights[b][i][j]).den > 0
                /\ kres.weights[b][i][j].e =
                      [num |-> Dot(kin.query[b][i], kin.key[b][j]),
                       sq |-> Len(kin.query[1][1])]

\* C10 witness: several queries and keys, dk > 1, and a row of unequal weights
C10_Witness ==
    /\ KernelDone /\ kres.ok
    /\ Len(kin.query[1]) > 1 /\ Len(kin.key[1]) > 1 /\ Len(kin.query[1][1]) > 1
    /\ \E b \in 1..Len(kin.query) : \E i \in 1..Len(kin.query[1]) :
          kres.weights[b][i][1].e # kres.weights[b][i][2].e

----------------------------------------------------------------------------
(* Claims about Transformer.forward (Spec)                                 *)

Last(seq) == seq[Len(seq)]

\* a call has returned or raised, and the caller has not called again
Returned == pc = "idle" /\ outs # <<>>

SrcShape == heap[inputs.src].shape
TgtShape == heap[inputs.tgt].shape

\* source and target share the batch size, and their width is dim_model
InputsAgree ==
    /\ SrcShape.dims[1] = TgtShape.dims[1]
    /\ SrcShape.dims[3] = model.dim_model
    /\ TgtShape.dims[3] = model.dim_model

\* C1: for source and target that share batch size B and width dim_model,
\* Transformer.forward returns a tensor of shape (B, target_length, dim_model).
C1_OutputShape ==
    (Returned /\ InputsAgree) =>
        /\ Last(outs).ok
        /\ Last(outs).shape = Sh(TgtShape.dims[1], TgtShape.dims[2], model.dim_model)

\* C2: Transformer.forward completes without a shape error when the sequence
\* lengths of source and target differ (batch size and dim_model shared).
C2_DifferentLengthsComplete ==
    (Returned /\ InputsAgree /\ SrcShape.dims[2] # TgtShape.dims[2]) => Last(outs).ok

C4_InputsUnchanged ==
    (Returned /\ Last(outs).ok) =>
        /\ heap[inputs.src].val = entry.src
        /\ heap[inputs.tgt].val = entry.tgt

\* C5: in evaluation mode, successive forward calls on the same source and
\* target tensor objects return the same output.
C5_RepeatedCallsAgree ==
    \A i \in 1..Len(outs) : \A j \in 1..Len(outs) :
        (~training /\ outs[i].ok /\ outs[j].ok) => outs[i].val = outs[j].val

\* C6: a Transformer whose dim_model is not divisible by num_heads is rejected
\* at construction: no such model is ever built.
C6_IndivisibleRejected ==
    (model.built /\ model.num_heads > 0) => model.dim_model % model.num_heads = 0

\* source and target differ in batch size, or one has a width that is not
\* dim_model
InputsMismatch ==
    \/ SrcShape.dims[1] # TgtShape.dims[1]
    \/ SrcShape.dims[3] # model.dim_model
    \/ TgtShape.dims[3] # model.dim_model

\* C7: on inputs of different batch size (or of a width that is not
\* dim_model) Transformer.forward raises at call entry: no encoder or decoder
\* step has run and neither input has been modified.
C7_MismatchRaisedAtEntry ==
    (Returned /\ InputsMismatch) =>
        /\ ~Last(outs).ok
        /\ log = <<>>
        /\ heap[inputs.src].val = entry.src
        /\ heap[inputs.tgt].val = entry.tgt

\* the axis (1..3) along which the entries of a value are non-negative and
\* sum to 1: that of the softmax that produced it (0: none)
NormalisedAxis(val) == IF nodes[val].op = "softmax" THEN Axis(nodes[val].n) ELSE 0

\* the log entries of the final projection
OutputEntries == {i \in 1..Len(log) : log[i].sub = "output"}

\* C8: TransformerDecoder.forward applies the final linear projection
\* (dim_model to dim_model) and a softmax over the channel axis exactly once,
\* after the last decoder layer: the returned value is
\* softmax(linear(tgt), dim=-1) of the last layer's output, so every
\* (batch, position) vector is non-negative and sums to 1.
C8_FinalProjectionOnce ==
    (Returned /\ Last(outs).ok) =>
        /\ OutputEntries = {Len(log)}
        /\ Len(log) > 1
        /\ Last(log).args = <<log[Len(log) - 1].out>>
        /\ log[Len(log) - 1].side = "dec"
        /\ log[Len(log) - 1].sub =
              (IF Len(model.decoder.layers) > 0 THEN "feed_forward" ELSE "position_encoding")
        /\ log[Len(log) - 1].layer = Len(model.decoder.layers)
        /\ NormalisedAxis(Last(outs).val) = 3
        /\ nodes[nodes[Last(outs).val].args[1]].op = "Linear"
        /\ nodes[nodes[Last(outs).val].args[1]].side = "dec"
        /\ Last(outs).shape.dims[3] = model.dim_model

\* C8 witness: a call through two decoder layers has returned its output
C8_Witness ==
    /\ Returned /\ Last(outs).ok
    /\ Len(model.decoder.layers) = 2
    /\ Len(model.encoder.layers) > 0
    /\ model.num_heads > 1

----------------------------------------------------------------------------
(* Claims about the functions called on their own (SpecUnit)               *)

UnitDone(fn) == kpc = "done" /\ kin.fn = fn

\* C11: for num_heads, dim_k, dim_v >= 1 and an input of shape
\* (B, L, dim_model) passed as query, key and value, MultiHeadAttention.forward
\* returns shape (B, L, dim_model); the concatenated heads have width
\* num_heads * dim_v, the input width of the fusion projection.
C11_MultiHeadShape ==
    (/\ UnitDone("MultiHeadAttention")
     /\ kin.num_heads >= 1 /\ kin.dim_k >= 1 /\ kin.dim_v >= 1
     /\ kin.input.dims[3] = kin.dim_in) =>
        /\ kres.shape = kin.input
        /\ kres.cat = Sh(kin.input.dims[1], kin.input.dims[2], kin.num_heads * kin.dim_v)
        /\ kres.fusion.in_features = kres.cat.dims[3]

\* C11 witness: several heads, dim_v differing from dim_k and from
\* dim_model // num_heads
C11_Witness ==
    /\ UnitDone("MultiHeadAttention")
    /\ kin.num_heads = MaxUnitHeads /\ kin.dim_k = 1 /\ kin.dim_v = 2 /\ kin.dim_in = 2
    /\ kin.input = Sh(2, 2, 2)
    /\ kres.shape = kin.input

\* the argument of the sinusoids: pos / 10000^(2*floor(i/2)/dim_model)
SinusoidArgument(pos, i, dim_model) == PhaseOf(pos, 2 * (i \div 2), dim_model)

\* C12: position_encoding applies sin (even i) or cos (odd i) to
\* pos / 10000^(2*floor(i/2)/dim_model); channels 2j and 2j+1 share the
\* argument, and distinct positions receive distinct encodings.
C12_SinusoidArgument ==
    UnitDone("position_encoding") =>
        /\ \A p \in 1..kin.seq_len : \A c \in 1..kin.dim_model :
            /\ kres.enc[p][c].fn = (IF (c - 1) % 2 = 0 THEN "sin" ELSE "cos")
            /\ kres.enc[p][c].phase = SinusoidArgument(p - 1, c - 1, kin.dim_model)
            /\ (c % 2 = 0) => kres.enc[p][c].phase = kres.enc[p][c - 1].phase
        /\ \A p, q \in 1..kin.seq_len :
            (p # q /\ kin.dim_model >= 1) => kres.enc[p] # kres.enc[q]

\* C13: for seq_len >= 1 and dim_model >= 1 the encoding of position 0 is
\* [0, 1, 0, 1, ...]: sin(0) on even channels, cos(0) on odd channels.
C13_PositionZeroPattern ==
    (UnitDone("position_encoding") /\ kin.seq_len >= 1 /\ kin.dim_model >= 1) =>
        \A c \in 1..kin.dim_model :
            /\ kres.enc[1][c].fn = (IF (c - 1) % 2 = 0 THEN "sin" ELSE "cos")
            /\ kres.enc[1][c].phase.m = 0

\* the argument that Residual.forward was given last
LastTensor == kin.tensors[Len(kin.tensors)]

\* C14: Residual.forward(*tensors) is norm(tensors[-1] + dropout(sublayer(
\* *tensors))): the base is the last positional argument whatever their
\* number, and in evaluation mode with a sublayer returning zeros the result
\* is exactly norm(tensors[-1]).
C14_ResidualBaseIsLast ==
    UnitDone("Residual") =>
        /\ kres.out.op = "LayerNorm"
        /\ \A b \in 1..Len(LastTensor) : \A i \in 1..Len(LastTensor[b]) :
           \A c \in 1..Len(LastTensor[b][i]) :
            LET sub == IF kin.returns = "zeros" THEN 0 ELSE kin.tensors[1][b][i][c]
            IN  IF kin.train /\ kin.dropout > 0
                THEN /\ kres.out.den = 10 - kin.dropout
                     /\ kres.out.of[b][i][c] =
                            kres.out.den * LastTensor[b][i][c]
                            + 10 * kres.mask[b][i][c] * sub
                ELSE /\ kres.out.den = 1
                     /\ kres.out.of[b][i][c] = LastTensor[b][i][c] + sub
        /\ (~kin.train /\ kin.returns = "zeros") =>
                kres.out = norm_of(Len(LastTensor[1][1]), LastTensor)

\* C14 witness: three arguments, the last differing from the first, a zero
\* sublayer, evaluation mode
C14_Witness ==
    /\ UnitDone("Residual")
    /\ Len(kin.tensors) = 3 /\ kin.tensors[3] # kin.tensors[1]
    /\ ~kin.train /\ kin.returns = "zeros" /\ kin.dropout > 0
    /\ kres.out = norm_of(Len(LastTensor[1][1]), LastTensor)

----------------------------------------------------------------------------
(* Claims about the modes and the order of Transformer.forward (Spec)      *)

\* a step in which a Residual wrapper returned
ResidualStep ==
    /\ Len(log') = Len(log) + 1
    /\ Last(log').sub \in {"attention", "attention_1", "attention_2", "feed_forward"}

\* the term that the Residual wrapper of this step added to its base
ResidualAddend == nodes'[nodes'[nodes'[heap'[Last(log').out].val].args[1]].args[2]]

\* C15: in evaluation mode the dropout of every Residual wrapper is the
\* identity on every forward call (no mask is sampled, the sublayer's output
\* is added as it is); in training mode every wrapper of every call samples
\* a mask that no earlier step has used.
C15_DropoutOnlyInTraining ==
    [][/\ ~training =>
            /\ rng' = rng
            /\ \A i \in 1..Len(nodes') : nodes'[i].op # "Dropout"
            /\ ResidualStep => ResidualAddend.op \in {"MultiHeadAttention", "feed_forward"}
       /\ (training /\ ResidualStep) =>
            /\ rng' = rng + 1
            /\ ResidualAddend.op = "Dropout"
            /\ ResidualAddend.n = rng'
            /\ \A i \in 1..Len(nodes) : nodes[i].op = "Dropout" => nodes[i].n < rng'
      ]_vars

\* C15 witness: two completed calls in evaluation mode through encoder and
\* decoder layers
C15_Witness ==
    /\ Returned /\ ~training /\ Len(outs) = MaxCalls
    /\ \A i \in 1..Len(outs) : outs[i].ok
    /\ Len(model.encoder.layers) >= 1 /\ Len(model.decoder.layers) >= 1
    /\ rng = 0

\* C16: with dropout disabled (evaluation mode), the output is a function of
\* the configuration, the parameters and the values of src and tgt: calls
\* fed identical source and target values return identical outputs. (Two
\* instances of one configuration holding the same parameter values are the
\* same `model`: a parameter is named by its place in the model.)
C16_SameValuesSameOutput ==
    ~training =>
        \A i \in 1..Len(outs) : \A j \in 1..Len(outs) :
            outs[i].entry = outs[j].entry =>
                /\ outs[i].ok = outs[j].ok
                /\ outs[i].shape = outs[j].shape
                /\ outs[i].val = outs[j].val

\* C16 witness: two completed calls in evaluation mode, through encoder and
\* decoder layers, fed the same values in distinct source and target tensors
C16_Witness ==
    /\ Returned /\ ~training /\ Len(outs) = 2
    /\ outs[1].ok /\ outs[2].ok
    /\ outs[1].entry = outs[2].entry
    /\ outs[1].entry.src # outs[1].entry.tgt
    /\ Len(model.encoder.layers) >= 1 /\ Len(model.decoder.layers) >= 1
    /\ outs[1].val = outs[2].val

\* TransformerEncoder.forward has returned and the decoder is running
EncoderReturned ==
    pc \in {"dec_pe", "dec_attention_1", "dec_attention_2", "dec_feed_forward", "dec_out"}

EncoderLog == SelectSeq(log, LAMBDA e : e.side = "enc")

\* the tensor object t holds the result of the Residual wrapper sub of the
\* encoder layer k
FromEncoderLayer(t, k, sub) ==
    /\ nodes[heap[t].val].op = "LayerNorm"
    /\ nodes[heap[t].val].side = "enc"
    /\ nodes[heap[t].val].layer = k
    /\ nodes[heap[t].val].sub = sub

\* C20: TransformerEncoder.forward adds the positional encoding once, before
\* the first layer, then applies the layers in list order, each once, the
\* output of layer k being the input of layer k + 1 and the output of the
\* last layer the memory; with no layers the memory is the position-encoded
\* input.
C20_EncoderOrder ==
    EncoderReturned =>
        LET ne == Len(model.encoder.layers)
            el == EncoderLog
        IN  /\ Len(el) = 1 + 2 * ne
            /\ el = SubSeq(log, 1, Len(el))
            /\ el[1].sub = "position_encoding"
            /\ el[1].args = <<inputs.src>> /\ el[1].out = inputs.src
            /\ pc = "dec_pe" =>
                    nodes[heap[inputs.src].val] =
                        Node("add", "", 0, "", 0, 0,
                             <<entry.src,
                               Id(nodes, Node("position_encoding", "", 0, "",
                                              SrcShape.dims[2], SrcShape.dims[3], <<>>))>>)
            /\ \A k \in 1..ne :
                /\ el[2 * k].sub = "attention" /\ el[2 * k].layer = k
                /\ el[2 * k].args =
                        <<el[2 * k - 1].out, el[2 * k - 1].out, el[2 * k - 1].out>>
                /\ FromEncoderLayer(el[2 * k].out, k, "attention")
                /\ el[2 * k + 1].sub = "feed_forward" /\ el[2 * k + 1].layer = k
                /\ el[2 * k + 1].args = <<el[2 * k].out>>
                /\ FromEncoderLayer(el[2 * k + 1].out, k, "feed_forward")
            /\ mem = el[Len(el)].out

\* C20 witness: the encoder has returned after all its layers, more than one
C20_Witness ==
    /\ pc = "dec_pe"
    /\ Len(model.encoder.layers) = MaxLayers
    /\ Len(EncoderLog) = 1 + 2 * MaxLayers
    /\ mem = Last(log).out
    /\ FromEncoderLayer(mem, MaxLayers, "feed_forward")

----------------------------------------------------------------------------
(* Claims about concurrent calls (SpecConcurrent)                          *)

\* C17: for any interleaving of two forward calls on one model in
\* evaluation mode, on distinct tensors or on the same tensor objects, each
\* call returns the output it returns when run alone, and no tensor is
\* written by one call while the other call is reading it.
C17_ConcurrentCallsIsolated ==
    \A i \in 1..Len(calls) :
        /\ ~calls[i].raced
        /\ calls[i].pc \in {"done", "raised"} =>
                /\ calls[i].pc = "done"
                /\ calls[i].out = AloneOutput(i)

----------------------------------------------------------------------------
(* Claims about PromptGuard.get_scores_for_texts (SpecGuard)               *)

RECURSIVE Concat(_, _)
Concat(seqs, n) == IF n = 0 THEN <<>> ELSE Concat(seqs, n - 1) \o seqs[n]

RECURSIVE MaxOf(_)
MaxOf(S) == IF S = {} THEN 0 ELSE LET e == CHOOSE e \in S : TRUE IN Max(e, MaxOf(S \ {e}))

\* C18: for max_batch_size >= 1 the wrappers return exactly one score per
\* text, in input order: len(result) == len(texts), and result[i] is computed
\* only from chunks of texts[i] (it is the largest of their scores, or 0).
C18_OneScorePerText ==
    pg.pc = "done" =>
        /\ Len(pg.result) = Len(pg.texts)
        /\ \A t \in 1..Len(pg.texts) :
            /\ \A c \in pg.sources[t] : c.index = t - 1 /\ c.to <= pg.texts[t]
            /\ pg.result[t] =
                    MaxOf({score_of(probabilities(pg.seed, c), pg.score_indices) :
                            c \in pg.sources[t]})

\* C18 witness: two texts of several chunks each, split over the batches
C18_Witness ==
    /\ pg.pc = "done"
    /\ Len(pg.texts) = 2 /\ pg.texts[1] > ChunkSize /\ pg.texts[2] > ChunkSize
    /\ Len(pg.batches) >= 2
    /\ pg.result[1] # pg.result[2]
    /\ Cardinality(pg.sources[1]) >= 2

\* C19 (safety): for max_batch_size >= 1 the batches passed on are
\* consecutive slices of all_chunks, each of 1..max_batch_size chunks, every
\* chunk passed once; the loop ends after ceil(total / max_batch_size) calls.
BatchesPartition ==
    pg.pc \in {"loop", "done"} =>
        /\ \A b \in 1..Len(pg.batches) :
                Len(pg.batches[b]) >= 1 /\ Len(pg.batches[b]) <= pg.max_batch_size
        /\ Concat(pg.batches, Len(pg.batches)) =
                SubSeq(pg.all_chunks, 1, Min(pg.i, Len(pg.all_chunks)))
        /\ Len(pg.batches) <= CeilDiv(Len(pg.all_chunks), pg.max_batch_size)
        /\ pg.pc = "done" =>
                /\ Len(pg.batches) = CeilDiv(Len(pg.all_chunks), pg.max_batch_size)
                /\ Concat(pg.batches, Len(pg.batches)) = pg.all_chunks

\* C19: the batches partition the chunks into consecutive slices of at most
\* max_batch_size, and for max_batch_size >= 1 the loop terminates, after
\* ceil(total_chunks / max_batch_size) calls of process_text_batch.
C19_BatchesPartitionAndTerminate ==
    /\ []BatchesPartition
    /\ (pg.pc = "call" /\ pg.max_batch_size >= 1) ~> (pg.pc = "done")

\* C19 witness: the last batch is shorter than max_batch_size, and there are
\* several batches
C19_Witness ==
    /\ pg.pc = "done"
    /\ Len(pg.batches) >= 2
    /\ Len(Last(pg.batches)) < pg.max_batch_size
    /\ Len(pg.batches) = CeilDiv(Len(pg.all_chunks), pg.max_batch_size)

----------------------------------------------------------------------------
(* Claims about the decoder and the layers of a Transformer (Spec)         *)

DecoderLog == SelectSeq(log, LAMBDA e : e.side = "dec")

\* the tensor object t holds the result of the Residual wrapper sub of the
\* decoder layer k
FromDecoderLayer(t, k, sub) ==
    /\ nodes[heap[t].val].op = "LayerNorm"
    /\ nodes[heap[t].val].side = "dec"
    /\ nodes[heap[t].val].layer = k
    /\ nodes[heap[t].val].sub = sub

\* the decoder steps of the running call that belong to layer k
DecoderLayerLog(k) == SelectSeq(DecoderLog, LAMBDA e : e.layer = k /\ e.sub # "output")

\* C21: every TransformerDecoderLayer.forward call applies its three residual
\* sublayers in the fixed order self-attention, cross-attention, feed-forward;
\* self-attention has the target alone as query, key and value, and each
\* step consumes the output of the step before it.
C21_DecoderLayerOrder ==
    (pc \in {"dec_attention_1", "dec_attention_2", "dec_feed_forward", "dec_out"}) =>
        LET dl == DecoderLog
        IN  /\ dl[1].sub = "position_encoding"
            /\ \A k \in 1..Len(model.decoder.layers) :
                 LET ll == DecoderLayerLog(k)
                     first == 3 * k - 1
                 IN  /\ Len(ll) \in 0..3
                     /\ (pc = "dec_out" \/ k < layer) => Len(ll) = 3
                     /\ ll = SubSeq(dl, first, first + Len(ll) - 1)
                     /\ Len(ll) >= 1 =>
                            /\ ll[1].sub = "attention_1"
                            /\ ll[1].args = <<dl[first - 1].out, dl[first - 1].out,
                                              dl[first - 1].out>>
                            /\ FromDecoderLayer(ll[1].out, k, "attention_1")
                     /\ Len(ll) >= 2 =>
                            /\ ll[2].sub = "attention_2"
                            /\ \E j \in 1..Len(ll[2].args) : ll[2].args[j] = ll[1].out
                            /\ FromDecoderLayer(ll[2].out, k, "attention_2")
                     /\ Len(ll) >= 3 =>
                            /\ ll[3].sub = "feed_forward"
                            /\ ll[3].args = <<ll[2].out>>
                            /\ FromDecoderLayer(ll[3].out, k, "feed_forward")

\* C21 witness: two decoder layers have run to the end, after an encoder
\* with layers
C21_Witness ==
    /\ pc = "dec_out"
    /\ Len(model.decoder.layers) = MaxLayers
    /\ Len(model.encoder.layers) > 0
    /\ Len(DecoderLayerLog(MaxLayers)) = 3
    /\ FromDecoderLayer(x, MaxLayers, "feed_forward")

\* the positions of TransformerDecoder.forward
DecoderRunning ==
    {"dec_pe", "dec_attention_1", "dec_attention_2", "dec_feed_forward", "dec_out"}

\* C22: within one Transformer.forward call every decoder layer receives the
\* same memory tensor, it holds the values the encoder returned, and no
\* decoder step modifies it (also with zero encoder layers, also with one
\* tensor passed as source and target).
C22_MemoryFixed ==
    [][(pc \in DecoderRunning /\ pc' \in DecoderRunning) =>
            /\ mem' = mem
            /\ heap'[mem].val = heap[mem].val
            /\ pc' = "dec_feed_forward" =>
                    \E j \in 1..Len(Last(log').args) : Last(log').args[j] = mem]_vars

\* a forward call is between its entry and its return
ForwardRunning ==
    pc \in {"enc_pe", "enc_attention", "enc_feed_forward"} \cup DecoderRunning

\* the tensor object t has batch size B (that of the inputs) and width
\* dim_model
KeepsBatchAndWidth(t) ==
    /\ heap[t].shape.ok
    /\ heap[t].shape.dims[1] = SrcShape.dims[1]
    /\ heap[t].shape.dims[3] = model.dim_model

\* C23: for inputs of batch size B and width dim_model and
\* 1 <= num_heads <= dim_model (dividing dim_model or not), the tensor that
\* flows through the Encoder and the Decoder has batch size B and width
\* dim_model after every step of every layer, for any depth; no encoder step
\* raises, and a decoder step raises only in cross-attention on sequences
\* of different lengths.
C23_BatchAndWidthKept ==
    (/\ model.built /\ inputs.made
     /\ model.num_heads >= 1 /\ model.num_heads <= model.dim_model
     /\ InputsAgree) =>
        /\ ForwardRunning =>
              /\ KeepsBatchAndWidth(x)
              /\ \A i \in 1..Len(log) : KeepsBatchAndWidth(log[i].out)
              /\ mem # 0 => KeepsBatchAndWidth(mem)
        /\ (Returned /\ ~Last(outs).ok) =>
              /\ Last(outs).err = "decoder.attention_2"
              /\ SrcShape.dims[2] # TgtShape.dims[2]

\* C23 witness: a call through MaxLayers encoder and decoder layers whose
\* num_heads does not divide dim_model is about to return
C23_Witness ==
    /\ pc = "dec_out"
    /\ InputsAgree
    /\ model.num_heads >= 1 /\ model.num_heads <= model.dim_model
    /\ model.dim_model % model.num_heads # 0
    /\ Len(model.encoder.layers) = MaxLayers
    /\ Len(model.decoder.layers) = MaxLayers
    /\ SrcShape.dims[1] > 1
    /\ KeepsBatchAndWidth(x)
    /\ Len(log) = 2 + 5 * MaxLayers

----------------------------------------------------------------------------
(* Claims about the construction of a layer (SpecUnit)                     *)

\* the width of torch.cat over the heads of a MultiHeadAttention
ConcatenatedWidth(mha) ==
    SumTo([h \in 1..Len(mha.heads) |-> mha.heads[h].v.out_features], Len(mha.heads))

\* C24: the construction of an encoder or decoder layer never raises for
\* num_heads >= 1; every head has dim_k = dim_v = floor(dim_model / num_heads),
\* so the concatenated head width num_heads * dim_v is at most dim_model and
\* is less than dim_model exactly when num_heads does not divide dim_model
\* (dim_model = 512, num_heads = 6: dim_k = 85, width 510).
C24_HeadDimTruncates ==
    (UnitDone("layer") /\ kin.num_heads >= 1) =>
        /\ ~kres.raised
        /\ Len(kres.attentions) =
              (IF kin.layer_class = "TransformerEncoderLayer" THEN 1 ELSE 2)
        /\ \A a \in 1..Len(kres.attentions) :
             LET mha == kres.attentions[a].sublayer
                 dim_k == mha.heads[1].q.out_features
                 width == ConcatenatedWidth(mha)
             IN  /\ Len(mha.heads) = kin.num_heads
                 /\ \A h \in 1..Len(mha.heads) :
                      /\ mha.heads[h].q.out_features = dim_k
                      /\ mha.heads[h].k.out_features = dim_k
                      /\ mha.heads[h].v.out_features = dim_k
                 /\ kin.num_heads * dim_k <= kin.dim_model
                 /\ kin.dim_model < kin.num_heads * (dim_k + 1)
                 /\ width = kin.num_heads * dim_k
                 /\ mha.linear.in_features = width
                 /\ width <= kin.dim_model
                 /\ (width < kin.dim_model) <=> (kin.dim_model % kin.num_heads # 0)
                 /\ (kin.dim_model = DefaultDimModel /\ kin.num_heads = DefaultNumHeads) =>
                        (dim_k = 85 /\ width = 510)

\* C24 witness: a decoder layer built with the defaults dim_model = 512 and
\* num_heads = 6 loses two channels
C24_Witness ==
    /\ UnitDone("layer")
    /\ kin.layer_class = "TransformerDecoderLayer"
    /\ kin.dim_model = DefaultDimModel /\ kin.num_heads = DefaultNumHeads
    /\ ~kres.raised
    /\ ConcatenatedWidth(kres.attentions[2].sublayer) = DefaultDimModel - 2

\* C25: for every seq_len >= 0 and dim_model >= 0,
\* position_encoding(seq_len, dim_model) returns a tensor of shape
\* (1, seq_len, dim_model); added to a feature tensor of shape
\* (B, seq_len, dim_model), out of place or in place, it broadcasts over
\* the batch axis and the sum has the feature tensor's shape.
C25_EncodingShape ==
    UnitDone("position_encoding") =>
        /\ kres.shape = Sh(1, kin.seq_len, kin.dim_model)
        /\ Len(kres.enc) = kin.seq_len
        /\ \A p \in 1..Len(kres.enc) : Len(kres.enc[p]) = kin.dim_model
        /\ \A b \in 1..(MaxBatch + 1) :
             LET features == Sh(b, kin.seq_len, kin.dim_model)
             IN  /\ add(features, kres.shape) = features
                 /\ iadd(features, kres.shape) = features

\* C25 witness: the encoding of an empty sequence, MaxEncodingDim wide
C25_Witness ==
    /\ UnitDone("position_encoding")
    /\ kin.seq_len = 0
    /\ kin.dim_model = MaxEncodingDim
    /\ kres.shape.ok
    /\ kres.shape.dims = <<1, 0, MaxEncodingDim>>

----------------------------------------------------------------------------
(* Claims about the construction of a Transformer (Spec)                   *)

\* the Residual r wraps a MultiHeadAttention built from the Transformer's
\* own arguments
AttentionAsConfigured(r) ==
    /\ r.norm = model.dim_model
    /\ r.dropout = model.dropout
    /\ r.sublayer.kind = "MultiHeadAttention"
    /\ Len(r.sublayer.heads) = model.num_heads
    /\ Len(r.sublayer.heads) # DefaultEncoderNumHeads
    /\ r.sublayer.linear.out_features = model.dim_model
    /\ \A h \in 1..Len(r.sublayer.heads) :
         /\ r.sublayer.heads[h].q.in_features = model.dim_model
         /\ r.sublayer.heads[h].k.in_features = model.dim_model
         /\ r.sublayer.heads[h].v.in_features = model.dim_model
         /\ model.num_heads * r.sublayer.heads[h].v.out_features =
                r.sublayer.linear.in_features

\* the Residual r wraps a feed_forward built from the Transformer's own
\* arguments
FeedForwardAsConfigured(r) ==
    /\ r.norm = model.dim_model
    /\ r.dropout = model.dropout
    /\ r.sublayer.kind = "feed_forward"
    /\ r.sublayer.linear_0.in_features = model.dim_model
    /\ r.sublayer.linear_0.out_features = model.dim_feedforward
    /\ r.sublayer.linear_2.in_features = model.dim_feedforward
    /\ r.sublayer.linear_2.out_features = model.dim_model

\* C26: every layer of a Transformer is built with the Transformer's own
\* num_heads, dim_model, dim_feedforward and dropout: the Encoder and the
\* Decoder are configured identically, and the default num_heads = 8 of
\* TransformerEncoder and TransformerDecoder never takes effect.
C26_LayersAsConfigured ==
    model.built =>
        /\ Len(model.encoder.layers) = model.num_encoder_layers
        /\ Len(model.decoder.layers) = model.num_decoder_layers
        /\ \A k \in 1..Len(model.encoder.layers) :
             /\ AttentionAsConfigured(model.encoder.layers[k].attention)
             /\ FeedForwardAsConfigured(model.encoder.layers[k].feed_forward)
        /\ \A k \in 1..Len(model.decoder.layers) :
             /\ AttentionAsConfigured(model.decoder.layers[k].attention_1)
             /\ AttentionAsConfigured(model.decoder.layers[k].attention_2)
             /\ FeedForwardAsConfigured(model.decoder.layers[k].feed_forward)
        /\ \A k \in 1..Len(model.encoder.layers) :
             \A j \in 1..Len(model.decoder.layers) :
                /\ model.encoder.layers[k].attention = model.decoder.layers[j].attention_1
                /\ model.encoder.layers[k].attention = model.decoder.layers[j].attention_2
                /\ model.encoder.layers[k].feed_forward =
                        model.decoder.layers[j].feed_forward

\* C26 witness: a Transformer with MaxLayers encoder and decoder layers and
\* two heads has been built
C26_Witness ==
    /\ model.built
    /\ pc = "idle"
    /\ model.num_heads = 2
    /\ Len(model.encoder.layers) = MaxLayers
    /\ Len(model.decoder.layers) = MaxLayers
    /\ Len(model.decoder.layers[MaxLayers].attention_2.sublayer.heads) = 2

----------------------------------------------------------------------------
(* Claims about the chunks and the scores of get_scores_for_texts          *)
(* (SpecGuard)                                                             *)

\* get_scores_for_texts has built all_chunks and text_indices
ChunksBuilt == pg.pc \in {"loop", "done", "raised"}

\* the chunks of texts[t - 1], in the order of all_chunks
ChunksOfText(t) == SelectSeq(pg.all_chunks, LAMBDA c : c.index = t - 1)

\* C27: get_scores_for_texts splits each text into consecutive,
\* non-overlapping chunks of at most 512 characters whose concatenation in
\* order is the text: a text of length n yields ceil(n / 512) chunks, all
\* but possibly the last of length 512; all_chunks and text_indices have
\* the same length and text_indices[j] names the text of all_chunks[j].
C27_ChunksCoverText ==
    ChunksBuilt =>
        /\ Len(pg.text_indices) = Len(pg.all_chunks)
        /\ \A j \in 1..Len(pg.all_chunks) :
             /\ pg.text_indices[j] = pg.all_chunks[j].index
             /\ pg.text_indices[j] \in 0..(Len(pg.texts) - 1)
             /\ j > 1 => pg.text_indices[j - 1] <= pg.text_indices[j]
        /\ \A t \in 1..Len(pg.texts) :
             LET ct == ChunksOfText(t)
                 n == pg.texts[t]
             IN  /\ ChunkSize * (Len(ct) - 1) < n
                 /\ n <= ChunkSize * Len(ct)
                 /\ Len(ct) > 0 => (ct[1].from = 0 /\ ct[Len(ct)].to = n)
                 /\ \A k \in 1..Len(ct) :
                      /\ ct[k].to - ct[k].from \in 1..ChunkSize
                      /\ k < Len(ct) => ct[k].to - ct[k].from = ChunkSize
                      /\ k < Len(ct) => ct[k + 1].from = ct[k].to

\* C27 witness: a text of three chunks, the last of one character, before
\* a text of two chunks
C27_Witness ==
    /\ ChunksBuilt
    /\ pg.texts = <<2 * ChunkSize + 1, ChunkSize + 1>>
    /\ Len(ChunksOfText(1)) = 3
    /\ ChunksOfText(1)[3].to - ChunksOfText(1)[3].from = 1
    /\ pg.text_indices = <<0, 0, 0, 1, 1>>

\* the sum of the probabilities of chunk c at the score indices
ChunkScore(c) == score_of(probabilities(pg.seed, c), pg.score_indices)

\* C28: the score get_scores_for_texts returns for text i is the maximum,
\* over all chunks of text i, of the sum of the chunk's probabilities at
\* score_indices, whatever max_batch_size and however the chunks fall across
\* the batches; an empty text gets score 0 and is never sent to the model.
C28_ScoreIsMaxOverChunks ==
    pg.pc = "done" =>
        \A t \in 1..Len(pg.texts) :
            LET ct == ChunksOfText(t)
            IN  /\ pg.result[t] = MaxOf({ChunkScore(ct[k]) : k \in 1..Len(ct)})
                /\ \A k \in 1..Len(ct) :
                     /\ pg.result[t] >= ChunkScore(ct[k])
                     /\ \E b \in 1..Len(pg.batches) : \E j \in 1..Len(pg.batches[b]) :
                            pg.batches[b][j] = ct[k]
                /\ pg.texts[t] > 0 => \E k \in 1..Len(ct) : pg.result[t] = ChunkScore(ct[k])
                /\ pg.texts[t] = 0 =>
                     /\ pg.result[t] = 0
                     /\ \A b \in 1..Len(pg.batches) : \A j \in 1..Len(pg.batches[b]) :
                            pg.batches[b][j].index # t - 1

\* C28 witness: the chunks of the first text are split over two batches, the
\* second batch holds chunks of two texts, and the largest score of the
\* first text is not that of its last chunk
C28_Witness ==
    /\ pg.pc = "done"
    /\ Len(pg.texts) = 2
    /\ Len(pg.batches) >= 2
    /\ pg.batches[1][1].index = 0
    /\ Len(pg.batches[2]) = 2
    /\ pg.batches[2][1].index = 0 /\ pg.batches[2][2].index = 1
    /\ pg.result[1] > ChunkScore(pg.batches[2][1])

\* what the wrapper returns on the texts, classifier and max_batch_size of
\* the call that has run
WrapperScores(wrapper) ==
    get_scores_for_texts(pg.texts, score_indices_of(wrapper), pg.seed, pg.max_batch_size)

\* C29: for the same texts, temperature and max_batch_size, every score
\* returned by get_indirect_injection_scores_for_texts (indices 1 and 2
\* summed) is at least the corresponding score returned by
\* get_jailbreak_scores_for_texts (index 2), the class probabilities being
\* non-negative.
C29_IndirectAtLeastJailbreak ==
    pg.pc = "done" =>
        /\ pg.result = WrapperScores(pg.wrapper)
        /\ Len(WrapperScores("get_indirect_injection_scores_for_texts")) =
              Len(WrapperScores("get_jailbreak_scores_for_texts"))
        /\ \A t \in 1..Len(pg.texts) :
              WrapperScores("get_indirect_injection_scores_for_texts")[t] >=
                WrapperScores("get_jailbreak_scores_for_texts")[t]

\* C29 witness: a call of get_indirect_injection_scores_for_texts on two
\* texts, in several batches, has returned a score above that of
\* get_jailbreak_scores_for_texts and one above 0
C29_Witness ==
    /\ pg.pc = "done"
    /\ pg.wrapper = "get_indirect_injection_scores_for_texts"
    /\ Len(pg.texts) = 2
    /\ Len(pg.batches) >= 2
    /\ pg.result[1] > WrapperScores("get_jailbreak_scores_for_texts")[1]
    /\ WrapperScores("get_jailbreak_scores_for_texts")[2] > 0

----------------------------------------------------------------------------
(* Claims about the attention kernel inside forward (Spec)                 *)

\* the steps of the running call that call MultiHeadAttention, and through
\* each head scaled_dot_product_attention
AttentionSteps ==
    {i \in 1..Len(log) : log[i].sub \in {"attention", "attention_1", "attention_2"}}

\* the MultiHeadAttention that step i of the log called
AttentionOfStep(i) ==
    IF log[i].side = "enc" THEN model.encoder.layers[log[i].layer].attention.sublayer
    ELSE IF log[i].sub = "attention_1"
         THEN model.decoder.layers[log[i].layer].attention_1.sublayer
         ELSE model.decoder.layers[log[i].layer].attention_2.sublayer

\* query.size(-1) in the kernel call of head h at step i: the width of
\* the head's projected query
KernelQueryWidth(i, h) ==
    Linear(AttentionOfStep(i).heads[h].q.in_features,
           AttentionOfStep(i).heads[h].q.out_features,
           heap[log[i].args[1]].shape).dims[3]

\* C30: for every Transformer constructed with num_heads >= 1 and
\* dim_model >= 1, every scaled_dot_product_attention call made during
\* forward has per-head dimension dk >= 1, so the divisor sqrt(dk) is never
\* zero.
C30_ScaleNeverZero ==
    (model.built /\ model.num_heads >= 1 /\ model.dim_model >= 1 /\ ForwardRunning) =>
        \A i \in AttentionSteps : \A h \in 1..Len(AttentionOfStep(i).heads) :
            KernelQueryWidth(i, h) >= 1

====
